---- MODULE Spec2Model ----
(***************************************************************************)
(* A model of renpy-warp's process/session coordination core:              *)
(*   - ProcessManager and RenpyProcess        (src/unnamed/part_003)       *)
(*   - the websocket side-channel server      (src/src/lib/socket.ts)      *)
(*   - launch_renpy's spawn path              (src/src/lib/launch.ts)      *)
(*   - the throttled cursor push              (src/unnamed/part_000)       *)
(* Node runs every listener to completion on one event loop, so each       *)
(* listener, timer callback and synchronous call is one atomic action.      *)
(***************************************************************************)
EXTENDS Integers, Sequences, FiniteSets, TLC

\* ------------------------------------------------------------------ bounds
MaxProcs == 2      \* child processes spawned in one run
MaxConns == 2      \* inbound websocket connections in one run
ConnProcs == 1     \* child processes spawned where connections are followed
CallConns == 1     \* inbound connections where calls on a session are followed
MaxIpc   == 1      \* ipc() calls issued in one run
MaxWaits == 1      \* wait_for_socket() calls in one run
Interval == 2      \* followCursorExecInterval, in clock units
MaxCalls == 4      \* calls of the throttled cursor push in one run
InboundProcs == 2  \* sessions whose inbound messages are followed
InboundConns == 2  \* connections whose inbound messages are followed
MaxTimers == 2      \* wait_for_socket_alive() and wait_for_socket_death() calls in one run
MaxHandlers == 2    \* message handlers suspended at a time
MaxExecCalls == 2   \* extension.js: calls of exec_py in one run
MaxRequests == 3   \* calls of launch_renpy up to the last one that ends early
MaxCommands == 2   \* extension.js: executed toggle commands waiting for their handler
MaxEnabling == 1   \* extension.js: toggle handlers suspended at one time
MaxJsCalls == 2    \* extension.js: throttled follow_cursor calls waiting

\* the processes the registry's specifications launch
Sessions == 1..MaxProcs
\* one process more for the specification of launch requests
LaunchProcs == MaxProcs + 1
Procs  == 1..LaunchProcs
Conns  == 1..MaxConns
\* Math.trunc(Math.random() * 2047483648), cut to as many values as there are
\* processes: two launches may draw the same nonce or different ones.
Nonces == 0..(MaxProcs - 1)
None   == 0                      \* undefined (no process / no socket)
NaN    == 0 - 1                  \* Number() of a missing or malformed header
\* (file, 1-indexed line) arguments of warp_to_line
Warps  == {<<"script.rpy", 15>>, <<"b.rpy", 1>>}
\* 0-indexed editor lines the cursor is moved to
Lines  == {0, 14}
\* the clock starts more than one interval after the epoch, and runs until
\* every call that can be made has been executed
Start   == Interval + 1
MaxTime == Start + MaxCalls * Interval

VARIABLES
    pstate,      \* OS child process: "unspawned" | "running" | "exited" | "failed"
    exit_code,   \* the code of the child's 'exit' event (NaN before it)
    signalled,   \* a SIGKILL was sent to the child and has not yet ended it
    dead,        \* RenpyProcess.dead
    nonce,       \* running_nonce of the launch (the id its add() is called with)
    socket,      \* RenpyProcess.socket (a connection or None)
    processes,   \* ProcessManager.processes: a Map, as entries in insertion order
    exit_calls,  \* invocations of ProcessManager.exit_handler, per process
    listening,   \* listening[p]: the WebSocketServer the launch of p started listens
    hooks,       \* hooks[p]: servers whose process_exit_handler is on p's 'exit'
    conn,        \* websocket connections: readyState and the rpp its listeners hold
    inbound,     \* the latest inbound frame: its connection, the rpp it was dispatched with
    frames,      \* outbound frames handed to socket.send, in order
    ipcs,        \* ipc() calls: promise state, timer, send callback
    waits,       \* wait_for_socket() calls: promise state, timer, interval
    last_call,   \* the most recent call of the API, its arguments and outcome
    now,         \* Date.now(), in clock units
    currentTick, \* p-throttle: start of the window the latest call was put in
    activeCount, \* p-throttle: calls put in that window
    queue,       \* p-throttle: due times of the executions scheduled by setTimeout
    cursor,      \* editor.selection.active.line (0-indexed)
    calls,       \* times at which warp_renpy_to_cursor_throttled was called
    pushes,      \* executions of warp_renpy_to_cursor: time and line warped to
    active,      \* FollowCursor.active
    text_editor_handle, \* FollowCursor.text_editor_handle is set (listener installed)
    enable_pc,   \* where a call of FollowCursor.enable() is suspended
    followed,    \* the `process` that call of enable() took from pm.at(0)
    followCursorMode, \* get_config('followCursorMode')
    js_spawned,  \* extension.js: the child processes launch_renpy has created
    js_processes, \* extension.js: ProcessManager.processes, a Set
    is_follow_cursor, \* extension.js: is_follow_cursor
    js_text_editor_handle, \* extension.js: text_editor_handle is installed
    js_commands, \* extension.js: executeCommand('renpyWarp.toggleFollowCursor') not yet run
    js_enabling, \* extension.js: toggle handlers suspended in supports_exec_py
    js_queue,    \* extension.js: calls of the throttled follow_cursor not yet run
    js_last,      \* extension.js: the latest registry event
    active_process, \* follow_cursor.active_process: the followed session, or None
    enabled,      \* follow_cursor.enabled of commands.ts: cursor-follow is on
    launch,       \* the latest call of launch_renpy: where it is and what it did
    starting_processes, \* the status bar's count of launches on the spawn path that have not settled
    preflight,    \* the latest call of launch_renpy: the paths it found, the errors it showed
    timers,       \* wait_for_socket_alive() and wait_for_socket_death() calls: promise state, timer, interval
    js_request,   \* extension.js: the latest call of launch_renpy and the branch it took
    running,     \* message handlers suspended in sync_editor_with_renpy, in the order they started
    frame,        \* the latest frame a 'message' listener was called with, and whether the listener threw
    exit_seen,    \* what exit_handler(process) found when it was called: process.dead, the process in the Map
    reload,       \* the latest call of reload(): where it is suspended, the wait it awaits, what it has observed
    exec_path,   \* extension.js: the call whose script the file at exec_path holds, or None without the file
    exec_calls,  \* extension.js: the calls of exec_py: where each is, its elapsed_ms
    exec_read    \* the calls whose script the runtime has read from exec.py

vars == <<pstate, exit_code, signalled, dead, nonce, socket, processes, exit_calls,
          listening, hooks, conn, inbound, frames, ipcs, waits, last_call,
          now, currentTick, activeCount, queue, cursor, calls, pushes,
          active, text_editor_handle, enable_pc, followed, followCursorMode,
          js_spawned, js_processes, is_follow_cursor, js_text_editor_handle, js_commands, js_enabling, js_queue, js_last,
          active_process, enabled,
          launch, starting_processes,
          preflight,
          timers,
          js_request,
          running, frame,
          exit_seen,
          reload,
          exec_path, exec_calls, exec_read>>

procVars == <<pstate, exit_code, signalled, dead, nonce, exit_calls>>
connVars == <<conn, inbound>>
callVars == <<frames, ipcs, waits>>
throttleVars == <<now, currentTick, activeCount, queue, cursor, calls, pushes>>
sessionVars == <<procVars, socket, processes, listening, hooks, connVars,
                 callVars, last_call>>
followVars == <<active, text_editor_handle, enable_pc, followed, followCursorMode>>
\* the state of the parts that sessions and the throttle do not write
jsVars == <<js_spawned, js_processes, is_follow_cursor, js_text_editor_handle,
            js_commands, js_enabling, js_queue, js_last>>
controllerVars == <<active_process, enabled>>
launchVars == <<launch, starting_processes>>
preflightVars == <<preflight>>
reloadVars == <<timers, reload>>
requestVars == <<js_request>>
handlerVars == <<running, frame>>
exitVars == <<exit_seen>>
execVars == <<exec_path, exec_calls, exec_read>>
\* the state only the waits of a reload and the requests of extension.js write
sideVars == <<reloadVars, requestVars, handlerVars, exitVars, execVars>>
\* what the waits of a reload leave alone beside sessions and throttle
besideReload == <<followVars, jsVars, controllerVars, launchVars, preflightVars,
                  requestVars, handlerVars, exitVars, execVars>>
\* what a launch request of extension.js leaves alone beside jsVars
besideRequest == <<sessionVars, throttleVars, followVars, controllerVars, launchVars,
                   preflightVars, reloadVars, handlerVars, exitVars, execVars>>
\* what the 'message' listener and the handlers it starts leave alone beside
\* the editor's line
besideHandler == <<sessionVars, followVars, jsVars, controllerVars, launchVars,
                   preflightVars, reloadVars, requestVars, exitVars, execVars>>
\* what the 'exit' listeners leave alone beside sessions and throttle
besideExit == <<followVars, jsVars, controllerVars, launchVars, preflightVars,
                reloadVars, requestVars, handlerVars, execVars>>
\* what the calls of exec_py leave alone
besideExec == <<sessionVars, throttleVars, followVars, jsVars, controllerVars,
                launchVars, preflightVars, reloadVars, requestVars, handlerVars,
                exitVars>>
extVars == <<followVars, jsVars, controllerVars, launchVars, preflightVars,
            sideVars>>
\* what the FollowCursor's actions leave alone beside sessions and throttle
besideFollow == <<jsVars, controllerVars, launchVars, preflightVars, sideVars>>
\* what the actions of extension.js leave alone
besideJs == <<sessionVars, throttleVars, followVars, controllerVars, launchVars,
             preflightVars, sideVars>>

\* ChildProcess.pid: undefined (0) when the spawn failed
pid(p) == IF pstate[p] \in {"running", "exited"} THEN 1000 + p ELSE 0

\* ------------------------------------------------------- Map<number, rpp>
\* A JavaScript Map keeps its entries in insertion order; set() on a key that
\* is present replaces the value in place.
MapHas(m, k) == \E i \in 1..Len(m) : m[i].id = k

MapGet(m, k) ==
    IF MapHas(m, k)
    THEN m[CHOOSE i \in 1..Len(m) : m[i].id = k].rpp
    ELSE None

MapSet(m, k, v) ==
    IF MapHas(m, k)
    THEN [i \in 1..Len(m) |-> IF m[i].id = k THEN [id |-> k, rpp |-> v] ELSE m[i]]
    ELSE Append(m, [id |-> k, rpp |-> v])

MapDelete(m, k) == SelectSeq(m, LAMBDA e : e.id # k)

MapValues(m) == {m[i].rpp : i \in 1..Len(m)}

\* ----------------------------------------------------------- ProcessManager
\* add(id, process), after its pid check: processes.set(id, process)
add(m, id, p) == MapSet(m, id, p)

\* a lookup that falls back to at(-1), the most recently added process
get_or_latest(id) ==
    IF MapHas(processes, id) THEN MapGet(processes, id)
    ELSE IF Len(processes) = 0 THEN None ELSE processes[Len(processes)].rpp

\* get(id)
get(id) == MapGet(processes, id)

\* get length()
length == Len(processes)

\* what launch_renpy finds on the disk: a file of the project, the project
\* root above it, the SDK's executable, the editor the settings name
Paths == [file : BOOLEAN, project_root : BOOLEAN, sdk : BOOLEAN, editor : BOOLEAN]
ValidPaths == [file |-> TRUE, project_root |-> TRUE, sdk |-> TRUE, editor |-> TRUE]
\* every path found, or all but one
PathCases ==
    {ValidPaths, [ValidPaths EXCEPT !.file = FALSE],
     [ValidPaths EXCEPT !.project_root = FALSE], [ValidPaths EXCEPT !.sdk = FALSE],
     [ValidPaths EXCEPT !.editor = FALSE]}

\* launch_renpy has not been called
NoLaunch ==
    [pc |-> "idle", seq |-> 0, branch |-> "none", line |-> NaN,
     strategy |-> "New Window", ext |-> FALSE, rpp |-> None, snapshot |-> {},
     wait |-> 0, ipc |-> 0, cancelled |-> FALSE, listener |-> FALSE,
     late |-> FALSE, kill_sent |-> FALSE, messages |-> 0, threw |-> FALSE,
     returned |-> None, starting |-> 0]

\* at(index): Array.from(this).at(index), for index 0 and -1
at(index) ==
    IF Len(processes) = 0 THEN None
    ELSE IF index = 0 THEN processes[1].rpp ELSE processes[Len(processes)].rpp

Init ==
    /\ pstate = [p \in Procs |-> "unspawned"]
    /\ exit_code = [p \in Procs |-> NaN]
    /\ signalled = [p \in Procs |-> FALSE]
    /\ dead = [p \in Procs |-> FALSE]
    /\ nonce = [p \in Procs |-> NaN]
    /\ socket = [p \in Procs |-> None]
    /\ processes = <<>>
    /\ exit_calls = [p \in Procs |-> 0]
    /\ listening = [p \in Procs |-> FALSE]
    /\ hooks = [p \in Procs |-> {}]
    /\ conn = [c \in Conns |-> [state |-> "fresh", nonce |-> NaN, rpp |-> None]]
    /\ inbound = [conn |-> None, handler |-> None,
                  message |-> [type |-> "none", line |-> 0], sync |-> {}]
    /\ frames = <<>>
    /\ ipcs = <<>>
    /\ waits = <<>>
    /\ last_call = [op |-> "none"]
    /\ now = Start
    /\ currentTick = 0
    /\ activeCount = 0
    /\ queue = {}
    /\ cursor = 0
    /\ calls = <<>>
    /\ pushes = <<>>
    /\ active = FALSE
    /\ text_editor_handle = FALSE
    /\ enable_pc = "idle"
    /\ followed = None
    /\ followCursorMode = "Visual Studio Code updates Ren'Py"
    /\ js_spawned = {}
    /\ js_processes = {}
    /\ is_follow_cursor = FALSE
    /\ js_text_editor_handle = FALSE
    /\ js_commands = 0
    /\ js_enabling = 0
    /\ js_queue = 0
    /\ js_last = [op |-> "none", process |-> None, following |-> FALSE,
                  left |-> 0, off_since |-> TRUE]
    /\ active_process = None
    /\ enabled = FALSE
    /\ launch = NoLaunch
    /\ starting_processes = 0
    /\ preflight = [paths |-> ValidPaths, messages |-> 0, threw |-> FALSE]
    /\ timers = <<>>
    /\ js_request = [line |-> NaN, strategy |-> "New Window", running |-> 0,
                     branch |-> "none", warp |-> None]
    /\ running = <<>>
    /\ frame = [conn |-> None, data |-> [type |-> "none", line |-> 0], threw |-> FALSE]
    /\ exit_seen = [p \in Procs |-> [called |-> FALSE, dead |-> FALSE, registered |-> FALSE]]
    /\ reload = [pc |-> "idle", rpp |-> None, conn |-> None, ipc |-> 0,
                 w |-> [rpp |-> None, kind |-> "none", outcome |-> "none",
                        settles |-> 0, timeout |-> FALSE, interval |-> FALSE],
                 trail |-> <<>>, error |-> ""]
    /\ exec_path = None
    /\ exec_calls = [k \in 1..MaxExecCalls |-> [pc |-> "none", elapsed_ms |-> 0]]
    /\ exec_read = {}

\* a spawn whose add() has no check of the pid
spawn_adds_without_pid(p, n, has_pid, ext) ==
    /\ pstate[p] = "unspawned"
    /\ \A q \in Procs : q < p => pstate[q] # "unspawned"
    /\ listening' = IF ext THEN [listening EXCEPT ![p] = TRUE] ELSE listening
    /\ pstate' = [pstate EXCEPT ![p] = IF has_pid THEN "running" ELSE "failed"]
    /\ nonce' = [nonce EXCEPT ![p] = n]
    /\ processes' = add(processes, n, p)
    /\ last_call' = [op |-> "add", id |-> n, rpp |-> p, threw |-> ~has_pid]

\* launch_renpy, spawn path: the side-channel server is started when extensions
\* are enabled, a nonce is drawn at random (it is not checked against the
\* registry), the child is spawned and handed to pm.add, which throws when the
\* child has no pid (the rejection is not awaited: nothing is registered).
\* With the `Replace Window` strategy pm.kill_all() is called before the nonce
\* is drawn, and launch_renpy suspends in between: that launch is the
\* kill_all action followed, at some later step, by this one.
spawn(p, n, has_pid, ext) ==
    /\ pstate[p] = "unspawned"
    /\ \A q \in Procs : q < p => pstate[q] # "unspawned"
    /\ listening' = IF ext THEN [listening EXCEPT ![p] = TRUE] ELSE listening
    /\ pstate' = [pstate EXCEPT ![p] = IF has_pid THEN "running" ELSE "failed"]
    /\ nonce' = [nonce EXCEPT ![p] = n]
    /\ processes' = IF has_pid THEN add(processes, n, p) ELSE processes
    /\ last_call' = [op |-> "add", id |-> n, rpp |-> p, threw |-> ~has_pid]

\* a launch on the spawn path that kills nothing and is not followed further
Launch(p, n, has_pid, ext) ==
    /\ spawn(p, n, has_pid, ext)
    /\ UNCHANGED <<exit_code, signalled, dead, socket, exit_calls, hooks>>
    /\ UNCHANGED <<connVars, callVars>>
    /\ UNCHANGED throttleVars
    /\ UNCHANGED extVars

\* an exit listener that leaves the Map as it is
exit_listener_keep(m, id) == m

\* what add()'s exit listener does to the Map: this.processes.delete(id)
exit_listener(m, id) == MapDelete(m, id)

\* an exit_handler called before the listeners have written anything
exit_handler_sees_first(p) ==
    [called |-> TRUE, dead |-> dead[p], registered |-> p \in MapValues(processes)]

\* this.exit_handler(process), the last statement of add()'s listener: the
\* constructor's listener, added before it, has set process.dead, and
\* this.processes.delete(id) has run
exit_handler_sees(p) ==
    [called |-> TRUE,
     dead |-> [dead EXCEPT ![p] = TRUE][p],
     registered |-> p \in MapValues(exit_listener(processes, nonce[p]))]

\* an 'exit' event whose first listener leaves this.dead as it is
ExitKeepsAlive(p, code) ==
    /\ pstate[p] = "running"
    /\ pstate' = [pstate EXCEPT ![p] = "exited"]
    /\ exit_code' = [exit_code EXCEPT ![p] = code]
    /\ signalled' = [signalled EXCEPT ![p] = FALSE]
    /\ dead' = dead
    /\ processes' = exit_listener(processes, nonce[p])
    /\ exit_calls' = [exit_calls EXCEPT ![p] = @ + 1]
    /\ listening' = [s \in Procs |-> listening[s] /\ s \notin hooks[p]]
    /\ hooks' = [q \in Procs |-> IF q = p THEN {} ELSE hooks[q] \ hooks[p]]
    /\ exit_seen' = [exit_seen EXCEPT ![p] = exit_handler_sees(p)]
    /\ UNCHANGED <<nonce, socket, last_call>>
    /\ UNCHANGED <<connVars, callVars>>
    /\ UNCHANGED throttleVars
    /\ UNCHANGED besideExit

\* The child's 'exit' event, with any code. Its listeners run in the order they
\* were added: RenpyProcess's (dead = true), ProcessManager.add's (delete the
\* id, report a non-zero code, call exit_handler), then the process_exit_handler
\* of each server that accepted a connection of p (server.close()). The
\* listeners of an exited child and those closing a closed server are dropped.
Exit(p, code) ==
    /\ pstate[p] = "running"
    /\ pstate' = [pstate EXCEPT ![p] = "exited"]
    /\ exit_code' = [exit_code EXCEPT ![p] = code]
    /\ signalled' = [signalled EXCEPT ![p] = FALSE]
    /\ dead' = [dead EXCEPT ![p] = TRUE]
    /\ processes' = exit_listener(processes, nonce[p])
    /\ exit_calls' = [exit_calls EXCEPT ![p] = @ + 1]
    /\ listening' = [s \in Procs |-> listening[s] /\ s \notin hooks[p]]
    /\ hooks' = [q \in Procs |-> IF q = p THEN {} ELSE hooks[q] \ hooks[p]]
    /\ exit_seen' = [exit_seen EXCEPT ![p] = exit_handler_sees(p)]
    /\ UNCHANGED <<nonce, socket, last_call>>
    /\ UNCHANGED <<connVars, callVars>>
    /\ UNCHANGED throttleVars
    /\ UNCHANGED besideExit

\* an iteration that reaches the most recently added process only
kill_targets_last(m) == IF Len(m) = 0 THEN {} ELSE {m[Len(m)].rpp}

\* the processes kill_all() iterates over: `for (const { process } of this)`
kill_targets(m) == MapValues(m)

\* kill_all(): process.kill(9) on every value of the Map
kill_all ==
    /\ signalled' = [p \in Procs |->
                       IF p \in kill_targets(processes) /\ pstate[p] = "running"
                       THEN TRUE ELSE signalled[p]]
    /\ last_call' = [op |-> "kill_all", snapshot |-> MapValues(processes)]
    /\ UNCHANGED <<pstate, exit_code, dead, nonce, socket, processes, exit_calls,
                   listening, hooks>>
    /\ UNCHANGED <<connVars, callVars>>
    /\ UNCHANGED throttleVars
    /\ UNCHANGED extVars

\* ------------------------------------------------------- side-channel server
\* socket.close() of the ws library: an OPEN socket starts the closing
\* handshake (readyState CLOSING); on any other socket it changes nothing.
close(cn) ==
    IF cn.state = "OPEN" THEN [cn EXCEPT !.state = "CLOSING"] ELSE cn

\* the connection handler without its `rpp.socket.close()` line
close_existing_skip(cs, rpp) == cs

\* The sockets after the connection handler's `if (rpp.socket) rpp.socket.close()`
close_existing(cs, rpp) ==
    IF socket[rpp] # None
    THEN [cs EXCEPT ![socket[rpp]] = close(@)]
    ELSE cs

\* rpp.socket = socket
attach(rpp, c) == [socket EXCEPT ![rpp] = c]

\* server.on('connection'): the nonce header is looked up in the registry; an
\* unknown nonce returns before anything is attached; otherwise an existing
\* socket of the process is closed, the new one is stored, the message and
\* close listeners are bound to rpp, and process_exit_handler is (re)added to
\* the process's 'exit' listeners. A client that presents the nonce of a
\* launch connects to the port of that launch (WARP_WS_NONCE and WARP_WS_PORT
\* are handed to the child together); any other nonce may arrive on any port.
Connection(c, sv, n) ==
    /\ listening[sv]
    /\ n \in {nonce[q] : q \in {r \in Procs : pstate[r] # "unspawned"}}
       => nonce[sv] = n
    /\ conn[c].state = "fresh"
    /\ \A d \in Conns : d < c => conn[d].state # "fresh"
    /\ LET rpp == get(n) IN
       IF rpp = None
       THEN /\ conn' = [conn EXCEPT
                           ![c] = [state |-> "OPEN", nonce |-> n, rpp |-> None]]
            /\ UNCHANGED <<socket, hooks>>
       ELSE /\ conn' = [close_existing(conn, rpp) EXCEPT
                           ![c] = [state |-> "OPEN", nonce |-> n, rpp |-> rpp]]
            /\ socket' = attach(rpp, c)
            /\ hooks' = [hooks EXCEPT ![rpp] = @ \cup {sv}]
    /\ UNCHANGED <<procVars, processes, listening, inbound, callVars, last_call>>
    /\ UNCHANGED throttleVars
    /\ UNCHANGED extVars

\* the messages a runtime sends: current_line with a 1-indexed line, and
\* another type
WireLines == {1, 15}
Messages == [type : {"current_line"}, line : WireLines]
                \cup {[type |-> "list_labels", line |-> 0]}

\* sync_editor_with_renpy({path, relative_path, line}): the editor's selection
\* is moved to the line
sync_editor_with_renpy(line) == line

\* the handler moves the editor to the wire line itself
message_handler_keeps_line(process, message) ==
    IF message.type = "current_line" /\ active_process = process
    THEN {message.line}
    ELSE {}

\* the message_handler launch_renpy gives the server: the lines it calls
\* sync_editor_with_renpy with. For a current_line message of the followed
\* process that is message.line - 1; another process's message, or another
\* type, syncs nothing.
message_handler(process, message) ==
    IF message.type = "current_line" /\ active_process = process
    THEN {message.line - 1}
    ELSE {}

\* An inbound frame on a connection that has a 'message' listener: the frame
\* is parsed and rpp.message_handler(rpp, message) is awaited. A connection the
\* handler returned from early has no listener: its frames change nothing.
Message(c, message) ==
    /\ conn[c].state = "OPEN"
    /\ conn[c].rpp # None
    /\ LET sync == message_handler(conn[c].rpp, message)
       IN  /\ inbound' = [conn |-> c, handler |-> conn[c].rpp,
                          message |-> message, sync |-> sync]
           /\ cursor' = IF sync = {} THEN cursor
                        ELSE sync_editor_with_renpy(CHOOSE l \in sync : TRUE)
    /\ UNCHANGED <<procVars, socket, processes, listening, hooks, conn,
                   callVars, last_call>>
    /\ UNCHANGED <<now, currentTick, activeCount, queue, calls, pushes>>
    /\ UNCHANGED extVars

\* The peer starts the closing handshake: readyState leaves OPEN before the
\* 'close' event is emitted.
CloseFrame(c) ==
    /\ conn[c].state = "OPEN"
    /\ conn' = [conn EXCEPT ![c].state = "CLOSING"]
    /\ UNCHANGED <<procVars, socket, processes, listening, hooks, inbound,
                   callVars, last_call>>
    /\ UNCHANGED throttleVars
    /\ UNCHANGED extVars

\* a 'close' listener that leaves rpp.socket as it is
SocketCloseKeepsSocket(c) ==
    /\ conn[c].state \in {"OPEN", "CLOSING"}
    /\ conn' = [conn EXCEPT
                    ![c] = [state |-> "CLOSED", nonce |-> NaN, rpp |-> None]]
    /\ UNCHANGED <<procVars, socket, processes, listening, hooks, inbound, callVars,
                   last_call>>
    /\ UNCHANGED throttleVars
    /\ UNCHANGED extVars

\* socket.on('close'): rpp.socket = undefined, whichever socket rpp holds. A
\* closed socket emits nothing more: its listeners are dropped.
SocketClose(c) ==
    /\ conn[c].state \in {"OPEN", "CLOSING"}
    /\ conn' = [conn EXCEPT
                    ![c] = [state |-> "CLOSED", nonce |-> NaN, rpp |-> None]]
    /\ socket' = IF conn[c].rpp # None
                 THEN [socket EXCEPT ![conn[c].rpp] = None]
                 ELSE socket
    /\ UNCHANGED <<procVars, processes, listening, hooks, inbound, callVars,
                   last_call>>
    /\ UNCHANGED throttleVars
    /\ UNCHANGED extVars

\* ------------------------------------------------------------ RenpyProcess
\* JavaScript values, tagged with their type
String(s) == [t |-> "string", v |-> s]
Number(n) == [t |-> "number", v |-> n]

\* JSON.stringify of an object, given as its <<key, value>> properties in
\* insertion order: properties whose value is undefined are left out.
JSON_stringify(message) == SelectSeq(message, LAMBDA kv : kv[2].t # "undefined")

\* JSON.parse of such a text: the object, as a function of its keys
JSON_parse(text) ==
    [k \in {text[i][1] : i \in 1..Len(text)} |->
        text[CHOOSE i \in 1..Len(text) :
                /\ text[i][1] = k
                /\ \A j \in (i + 1)..Len(text) : text[j][1] # k][2]]

\* the same literal with the line moved by one
warp_to_line_message_off_by_one(file, line) ==
    <<<<"type", String("warp_to_line")>>, <<"file", String(file)>>,
      <<"line", Number(line + 1)>>>>

\* the object literal of warp_to_line(file, line)
warp_to_line_message(file, line) ==
    <<<<"type", String("warp_to_line")>>, <<"file", String(file)>>,
      <<"line", Number(line)>>>>

\* a guard that looks at `!this.socket` only
no_socket_connection_unset(p) == socket[p] = None

\* ipc()'s guard: `!this.socket || this.socket?.readyState !== WebSocket.OPEN`
no_socket_connection(p) ==
    socket[p] = None \/ conn[socket[p]].state # "OPEN"

\* ipc(message): without an open socket it throws 'no socket connection';
\* otherwise it arms the 1000 ms timer and hands the serialized message to
\* socket.send with a callback.
ipc(p, message) ==
    IF no_socket_connection(p)
    THEN /\ ipcs' = Append(ipcs, [state |-> "rejected",
                                  error |-> "no socket connection",
                                  timer |-> FALSE, callback |-> FALSE])
         /\ frames' = frames
    ELSE /\ ipcs' = Append(ipcs, [state |-> "pending", error |-> "",
                                  timer |-> TRUE, callback |-> TRUE])
         /\ frames' = Append(frames, [conn |-> socket[p],
                                      data |-> JSON_stringify(message)])

\* warp_to_line(file, line), line 1-indexed
warp_to_line(p, file, line) == ipc(p, warp_to_line_message(file, line))

WarpToLine(p, file, line) ==
    /\ pstate[p] \in {"running", "exited"}
    /\ Len(ipcs) < MaxIpc
    /\ warp_to_line(p, file, line)
    /\ last_call' = [op |-> "warp_to_line", rpp |-> p, file |-> file,
                     line |-> line]
    /\ UNCHANGED <<procVars, socket, processes, listening, hooks, connVars, waits>>
    /\ UNCHANGED throttleVars
    /\ UNCHANGED extVars

\* settling a promise: only the first resolve or reject counts
settle(call, state, error) ==
    IF call.state = "pending"
    THEN [call EXCEPT !.state = state, !.error = error]
    ELSE call

\* a send callback without clearTimeout(timeout)
IpcCallbackKeepsTimeout(i, err) ==
    /\ i \in 1..Len(ipcs)
    /\ ipcs[i].callback
    /\ ipcs' = [ipcs EXCEPT ![i] =
                  [settle(@, IF err THEN "rejected" ELSE "resolved",
                             IF err THEN "send failed" ELSE "")
                     EXCEPT !.callback = FALSE]]
    /\ UNCHANGED <<procVars, socket, processes, listening, hooks, connVars,
                   frames, waits, last_call>>
    /\ UNCHANGED throttleVars
    /\ UNCHANGED extVars

\* socket.send's callback: clearTimeout, then reject(err) or resolve()
IpcCallback(i, err) ==
    /\ i \in 1..Len(ipcs)
    /\ ipcs[i].callback
    /\ ipcs' = [ipcs EXCEPT ![i] =
                  [settle(@, IF err THEN "rejected" ELSE "resolved",
                             IF err THEN "send failed" ELSE "")
                     EXCEPT !.timer = FALSE, !.callback = FALSE]]
    /\ UNCHANGED <<procVars, socket, processes, listening, hooks, connVars,
                   frames, waits, last_call>>
    /\ UNCHANGED throttleVars
    /\ UNCHANGED extVars

\* the 1000 ms timer: reject('ipc timed out')
IpcTimeout(i) ==
    /\ i \in 1..Len(ipcs)
    /\ ipcs[i].timer
    /\ ipcs' = [ipcs EXCEPT ![i] =
                  [settle(@, "rejected", "ipc timed out") EXCEPT !.timer = FALSE]]
    /\ UNCHANGED <<procVars, socket, processes, listening, hooks, connVars,
                   frames, waits, last_call>>
    /\ UNCHANGED throttleVars
    /\ UNCHANGED extVars

\* resolve() or reject(error) of wait_for_socket's promise: the call is
\* counted, and only the first one decides the outcome
settle_wait(w, outcome) ==
    [w EXCEPT !.settles = @ + 1,
              !.outcome = IF @ = "pending" THEN outcome ELSE @]

\* wait_for_socket(timeout_ms): returns at once when this.socket is set;
\* otherwise the promise is created with its timeout and its 50 ms interval
\* armed.
WaitForSocket(p) ==
    /\ pstate[p] \in {"running", "exited"}
    /\ Len(waits) < MaxWaits
    /\ waits' = Append(waits,
                  IF socket[p] # None
                  THEN [rpp |-> p, outcome |-> "resolved", settles |-> 1,
                        timeout |-> FALSE, interval |-> FALSE]
                  ELSE [rpp |-> p, outcome |-> "pending", settles |-> 0,
                        timeout |-> TRUE, interval |-> TRUE])
    /\ last_call' = [op |-> "wait_for_socket", rpp |-> p]
    /\ UNCHANGED <<procVars, socket, processes, listening, hooks, connVars,
                   frames, ipcs>>
    /\ UNCHANGED throttleVars
    /\ UNCHANGED extVars

\* the interval callback's branch: `this.socket ? resolve() : reject(...)`
poll_outcome(p) ==
    IF socket[p] # None THEN "resolved"
    ELSE "process died before socket connected"

\* A tick of the interval that finds this.socket || this.dead: both timers are
\* cleared and the promise is settled. A tick that finds neither does nothing.
WaitPoll(i) ==
    /\ i \in 1..Len(waits)
    /\ waits[i].interval
    /\ socket[waits[i].rpp] # None \/ dead[waits[i].rpp]
    /\ waits' = [waits EXCEPT ![i] =
                   [settle_wait(@, poll_outcome(@.rpp))
                      EXCEPT !.timeout = FALSE, !.interval = FALSE]]
    /\ UNCHANGED <<procVars, socket, processes, listening, hooks, connVars,
                   frames, ipcs, last_call>>
    /\ UNCHANGED throttleVars
    /\ UNCHANGED extVars

\* a timeout callback that leaves the interval running
timeout_callback_keeps_interval(w) ==
    [settle_wait(w, "timed out waiting for socket") EXCEPT !.timeout = FALSE]

\* the timeout callback: clearInterval(interval), reject(timed out)
timeout_callback(w) ==
    [settle_wait(w, "timed out waiting for socket")
       EXCEPT !.timeout = FALSE, !.interval = FALSE]

\* the timeout fires
WaitTimeout(i) ==
    /\ i \in 1..Len(waits)
    /\ waits[i].timeout
    /\ waits' = [waits EXCEPT ![i] = timeout_callback(@)]
    /\ UNCHANGED <<procVars, socket, processes, listening, hooks, connVars,
                   frames, ipcs, last_call>>
    /\ UNCHANGED throttleVars
    /\ UNCHANGED extVars

\* ------------------------------------------------------------ follow cursor
\* p_throttle({ limit: 1, interval })
limit == 1

\* a windowedDelay() that gives every call the time of the call
windowedDelay_no_delay == [currentTick |-> now, activeCount |-> 1]

\* p-throttle's windowedDelay(): a call that comes more than one interval after
\* the current window opens a window at now and runs without delay; otherwise
\* it takes a free slot of the current window, or, the window being full, the
\* first slot of the next window. No call is dropped: each is given a time.
windowedDelay ==
    IF now - currentTick > Interval
    THEN [currentTick |-> now, activeCount |-> 1]
    ELSE IF activeCount < limit
         THEN [currentTick |-> currentTick, activeCount |-> activeCount + 1]
         ELSE [currentTick |-> currentTick + Interval, activeCount |-> 1]

\* warp_renpy_to_cursor_throttled(process): setTimeout(execute, delay)
throttled ==
    /\ currentTick' = windowedDelay.currentTick
    /\ activeCount' = windowedDelay.activeCount
    /\ queue' = queue \cup {windowedDelay.currentTick}
    /\ calls' = Append(calls, now)

\* onDidChangeTextEditorSelection: the cursor has moved; a change that is not
\* of kind Command calls the throttled push.
SelectionChange(line, kind) ==
    /\ Len(calls) < MaxCalls
    /\ cursor' = line
    /\ IF kind # "Command"
       THEN throttled
       ELSE UNCHANGED <<currentTick, activeCount, queue, calls>>
    /\ UNCHANGED <<now, pushes, sessionVars>>
    /\ UNCHANGED extVars

\* warp_renpy_to_cursor(process): the cursor is read when the function runs;
\* process.warp_to_line(filename_relative, line + 1). The comparison with
\* last_warp_spec is commented out: the warp is made whether or not the cursor
\* has moved since the last one.
warp_renpy_to_cursor == [at |-> now, line |-> cursor + 1]

\* a scheduled execution whose time has come: timers fire in order of time
Execute(due) ==
    /\ due \in queue
    /\ due <= now
    /\ \A d \in queue : due <= d
    /\ queue' = queue \ {due}
    /\ pushes' = Append(pushes, warp_renpy_to_cursor)
    /\ UNCHANGED <<now, currentTick, activeCount, cursor, calls, sessionVars>>
    /\ UNCHANGED extVars

\* the clock advances once the timers that are due have fired
Tick ==
    /\ now < MaxTime
    /\ \A d \in queue : d > now
    /\ now' = now + 1
    /\ UNCHANGED <<currentTick, activeCount, queue, cursor, calls, pushes,
                   sessionVars>>
    /\ UNCHANGED extVars

\* ------------------------------------------------------------ FollowCursor
\* the values of the followCursorMode setting
Modes == {"Visual Studio Code updates Ren'Py", "Ren'Py updates Visual Studio Code",
          "Update both"}

\* the modes in which the editor's cursor is pushed to Ren'Py
OutboundModes == {"Visual Studio Code updates Ren'Py", "Update both"}

\* the setting is changed
SetMode(m) ==
    /\ followCursorMode # m
    /\ followCursorMode' = m
    /\ UNCHANGED <<active, text_editor_handle, enable_pc, followed>>
    /\ UNCHANGED <<sessionVars, throttleVars>>
    /\ UNCHANGED besideFollow

\* enable() goes on after the error message when more than one process is
\* registered: it returns early only when pm.at(0) is undefined
enable_refuses(count, process) == process = None

\* renpyWarp.toggleFollowCursor: enable() when not active, else disable().
\* enable(), up to its first await: with more than one process an error
\* message is shown; without a process at(0) another is shown and enable()
\* returns; otherwise active is set and enable() suspends in
\* ensure_websocket_server. disable(): active is cleared and the listener
\* disposed. The command does not await enable(); one call of enable() is
\* followed at a time.
Toggle ==
    /\ IF ~active
       THEN /\ enable_pc = "idle"
            /\ last_call' = [op |-> "enable", count |-> length]
            /\ IF enable_refuses(length, at(0))
               THEN UNCHANGED <<active, enable_pc, followed>>
               ELSE /\ active' = TRUE
                    /\ followed' = at(0)
                    /\ enable_pc' = "ensure"
            /\ UNCHANGED text_editor_handle
       ELSE /\ last_call' = [op |-> "disable"]
            /\ active' = FALSE
            /\ text_editor_handle' = FALSE
            /\ UNCHANGED <<enable_pc, followed>>
    /\ UNCHANGED <<procVars, socket, processes, listening, hooks, connVars,
                   callVars, throttleVars, followCursorMode>>
    /\ UNCHANGED besideFollow

\* enable() resumes from ensure_websocket_server, which has thrown (enable()
\* ends there) or returned. It then calls process.wait_for_socket() without a
\* timeout: with the socket set that returns at once, the listener is
\* installed, and in an outbound mode the throttled push is called; with no
\* socket enable() suspends again.
EnableEnsured(ok) ==
    /\ enable_pc = "ensure"
    /\ IF ~ok
       THEN /\ enable_pc' = "idle"
            /\ UNCHANGED <<text_editor_handle, currentTick, activeCount, queue, calls>>
       ELSE IF socket[followed] = None
       THEN /\ enable_pc' = "wait"
            /\ UNCHANGED <<text_editor_handle, currentTick, activeCount, queue, calls>>
       ELSE /\ enable_pc' = "idle"
            /\ text_editor_handle' = TRUE
            /\ IF followCursorMode \in OutboundModes /\ Len(calls) < MaxCalls
               THEN throttled
               ELSE UNCHANGED <<currentTick, activeCount, queue, calls>>
    /\ UNCHANGED <<active, followed, followCursorMode, now, cursor, pushes,
                   sessionVars>>
    /\ UNCHANGED besideFollow

\* wait_for_socket(undefined): setTimeout(..., undefined) fires after 1 ms,
\* before the first tick of the 50 ms interval: the wait is rejected with
\* 'timed out waiting for socket' and enable() ends there.
EnableWaitTimeout ==
    /\ enable_pc = "wait"
    /\ enable_pc' = "idle"
    /\ UNCHANGED <<active, text_editor_handle, followed, followCursorMode,
                   sessionVars, throttleVars>>
    /\ UNCHANGED besideFollow

\* the listener enable() installs on onDidChangeTextEditorSelection, while it
\* is installed: in an outbound mode a change that is not of kind Command
\* calls the throttled push. The event and what the listener did with it are
\* kept in last_call.
FollowSelectionChange(line, kind) ==
    /\ text_editor_handle
    /\ Len(calls) < MaxCalls
    /\ cursor' = line
    /\ LET push == followCursorMode \in OutboundModes /\ kind # "Command"
       IN  /\ last_call' = [op |-> "selection", kind |-> kind, active |-> active,
                            mode |-> followCursorMode, push |-> push]
           /\ IF push
              THEN throttled
              ELSE UNCHANGED <<currentTick, activeCount, queue, calls>>
    /\ UNCHANGED <<now, pushes, procVars, socket, processes, listening, hooks,
                   connVars, callVars, extVars>>

\* ------------------------------------------------------------ extension.js
\* The single-file version: its ProcessManager keeps a Set of child processes
\* and turns cursor-follow off itself.

\* update_status_bar changes no state
update_status_bar_silent(len) == 0

\* update_status_bar(), by the number of toggleFollowCursor commands it
\* executes: one when no process is left and is_follow_cursor is set
update_status_bar(len) == IF len = 0 /\ is_follow_cursor THEN 1 ELSE 0

\* launch_renpy from child_process.exec on, with pm.add(this_process): the
\* process joins the Set, update_status_bar runs, the exit listener is
\* installed, and with more than one process and is_follow_cursor set the
\* toggle command is executed. (kill_all of 'Replace Window' only sends
\* signals; JsExit is the exit that follows.)
exec_and_add(p) ==
    /\ p \notin js_spawned
    /\ js_spawned' = js_spawned \cup {p}
    /\ js_processes' = js_processes \cup {p}
    /\ LET n == Cardinality(js_processes')
           k == update_status_bar(n) + (IF n > 1 /\ is_follow_cursor THEN 1 ELSE 0)
       IN  /\ js_commands + k <= MaxCommands
           /\ js_commands' = js_commands + k
    /\ js_last' = [op |-> "add", process |-> p, following |-> is_follow_cursor,
                   left |-> Cardinality(js_processes'),
                   off_since |-> ~is_follow_cursor]
    /\ UNCHANGED <<is_follow_cursor, js_text_editor_handle, js_enabling, js_queue>>

\* a launch that takes the spawn path
JsLaunch(p) ==
    /\ exec_and_add(p)
    /\ UNCHANGED besideJs

\* a value the `&&` of the in-place condition takes as true: a line that is
\* neither undefined nor 0
truthy(line) == line # NaN /\ line # 0

\* launch_renpy({file, line}) of extension.js under a strategy. With a
\* process in the Set, a truthy line and 'Update Window': more than one
\* process is an error and nothing is warped; one process is warped by
\* exec_py to line + 1. Otherwise a child is spawned and added; its --warp
\* argument is line + 1 unless line is undefined.
js_launch_renpy(p, line, strategy) ==
    /\ LET n == Cardinality(js_processes)
       IN  IF n # 0 /\ truthy(line) /\ strategy = "Update Window"
           THEN /\ js_request' = [line |-> line, strategy |-> strategy, running |-> n,
                                  branch |-> IF n > 1 THEN "error" ELSE "in_place",
                                  warp |-> IF n > 1 THEN None ELSE line + 1]
                /\ UNCHANGED jsVars
           ELSE /\ exec_and_add(p)
                /\ js_request' = [line |-> line, strategy |-> strategy, running |-> n,
                                  branch |-> "spawn",
                                  warp |-> IF line = NaN THEN None ELSE line + 1]
    /\ UNCHANGED besideRequest

\* the 'exit' listener of add(): processes.delete, update_status_bar
JsExit(p) ==
    /\ p \in js_processes
    /\ js_processes' = js_processes \ {p}
    /\ LET k == update_status_bar(Cardinality(js_processes'))
       IN  /\ js_commands + k <= MaxCommands
           /\ js_commands' = js_commands + k
    /\ js_last' = [op |-> "exit", process |-> p, following |-> is_follow_cursor,
                   left |-> Cardinality(js_processes'),
                   off_since |-> ~is_follow_cursor]
    /\ UNCHANGED <<js_spawned, is_follow_cursor, js_text_editor_handle,
                   js_enabling, js_queue>>
    /\ UNCHANGED besideJs

\* the handler of renpyWarp.toggleFollowCursor up to its first await: when
\* following, follow is turned off and the listener disposed; when not, it
\* returns without exactly one process, else suspends in supports_exec_py.
\* js_last keeps whether follow has been off since the latest registry event.
toggleFollowCursor ==
    IF is_follow_cursor
    THEN /\ is_follow_cursor' = FALSE
         /\ js_text_editor_handle' = FALSE
         /\ js_last' = [js_last EXCEPT !.off_since = TRUE]
         /\ UNCHANGED js_enabling
    ELSE IF Cardinality(js_processes) # 1
    THEN UNCHANGED <<is_follow_cursor, js_text_editor_handle, js_enabling, js_last>>
    ELSE /\ js_enabling < MaxEnabling
         /\ js_enabling' = js_enabling + 1
         /\ UNCHANGED <<is_follow_cursor, js_text_editor_handle, js_last>>

\* the user runs the command
JsToggle ==
    /\ toggleFollowCursor
    /\ UNCHANGED <<js_spawned, js_processes, js_commands, js_queue>>
    /\ UNCHANGED besideJs

\* a command executed by the extension itself reaches its handler
JsExecuteCommand ==
    /\ js_commands > 0
    /\ js_commands' = js_commands - 1
    /\ toggleFollowCursor
    /\ UNCHANGED <<js_spawned, js_processes, js_queue>>
    /\ UNCHANGED besideJs

\* the handler resumes from supports_exec_py: unsupported, it returns;
\* supported, it sets is_follow_cursor, installs the listener and calls the
\* throttled follow_cursor
JsToggleResume(supported) ==
    /\ js_enabling > 0
    /\ js_enabling' = js_enabling - 1
    /\ IF supported
       THEN /\ js_queue < MaxJsCalls
            /\ is_follow_cursor' = TRUE
            /\ js_text_editor_handle' = TRUE
            /\ js_queue' = js_queue + 1
       ELSE UNCHANGED <<is_follow_cursor, js_text_editor_handle, js_queue>>
    /\ UNCHANGED <<js_spawned, js_processes, js_commands, js_last>>
    /\ UNCHANGED besideJs

\* onDidChangeTextEditorSelection(follow_cursor): a selection change calls the
\* throttled follow_cursor
JsSelectionChange ==
    /\ js_text_editor_handle
    /\ js_queue < MaxJsCalls
    /\ js_queue' = js_queue + 1
    /\ UNCHANGED <<js_spawned, js_processes, is_follow_cursor,
                   js_text_editor_handle, js_commands, js_enabling, js_last>>
    /\ UNCHANGED besideJs

\* the throttle runs follow_cursor: without exactly one process it executes
\* the toggle command, else it writes the warp for exec.py
follow_cursor ==
    /\ js_queue > 0
    /\ js_queue' = js_queue - 1
    /\ IF Cardinality(js_processes) # 1
       THEN /\ js_commands < MaxCommands
            /\ js_commands' = js_commands + 1
       ELSE UNCHANGED js_commands
    /\ UNCHANGED <<js_spawned, js_processes, is_follow_cursor,
                   js_text_editor_handle, js_enabling, js_last>>
    /\ UNCHANGED besideJs

\* ------------------------------------------------- follow_cursor (set, off)
\* follow_cursor.set(process): the controller is On(process)
set(process) == process

\* follow_cursor.off(): the controller is Off
off == None

\* renpyWarp.toggleFollowCursor: off() when a process is followed, else
\* set(pm.at(-1)) when there is one
toggleFollowCursorCommand ==
    /\ active_process' =
          IF active_process # None THEN off
          ELSE IF at(0 - 1) = None THEN active_process
          ELSE set(at(0 - 1))
    /\ active_process' # active_process
    /\ UNCHANGED enabled
    /\ UNCHANGED <<sessionVars, throttleVars, followVars, jsVars, launchVars>>
    /\ UNCHANGED <<preflightVars, sideVars>>

\* renpyWarp.toggleFollowCursor of commands.ts. With follow enabled:
\* follow_cursor.off(). Otherwise, without a process, 'Follow Cursor: On' is
\* notified and follow_cursor.enabled is set; with one,
\* follow_cursor.set(pm.at(-1)) is awaited. (off() clears the flag and the
\* followed session, set(process) sets both.) The request is kept in
\* last_call with the number of sessions it found.
toggleFollowCursorEnabled ==
    /\ last_call' = [op |-> "toggleFollowCursor", count |-> length]
    /\ IF enabled
       THEN /\ enabled' = FALSE
            /\ active_process' = off
       ELSE IF at(0 - 1) = None
       THEN /\ enabled' = TRUE
            /\ UNCHANGED active_process
       ELSE /\ enabled' = TRUE
            /\ active_process' = set(at(0 - 1))
    /\ UNCHANGED <<procVars, socket, processes, listening, hooks, connVars,
                   callVars, throttleVars>>
    /\ UNCHANGED <<followVars, jsVars, launchVars, preflightVars, sideVars>>

\* ------------------------------------------------------------- launch_renpy
\* get_config('strategy')
Strategies == {"New Window", "Replace Window", "Update Window"}

\* the line launch_renpy is given: an editor line, or none (undefined)
LaunchLines == Lines \cup {NaN}

\* the file of the editor
filename_relative == "script.rpy"

\* the condition of the in-place branch
in_place(line, strategy, ext) ==
    /\ length > 0
    /\ line # NaN
    /\ strategy = "Update Window"
    /\ ext

\* process.kill() on each of the targets: a running child is signalled
kill_signal(targets) ==
    [q \in Procs |-> IF q \in targets /\ pstate[q] = "running"
                     THEN TRUE ELSE signalled[q]]

\* the listener leaves the process alone
cancel_listener_idle(rpp) == {}

\* the listener given to cancel.onCancellationRequested: the processes it
\* kills
cancel_listener(rpp) == {rpp}

\* cancel.onCancellationRequested(listener), then, with extensions enabled,
\* rpp.wait_for_socket(10_000) is called and awaited; without them the
\* callback returns rpp. A listener added to a token that is cancelled
\* already is called from a timer of its own.
register_and_wait(l) ==
    IF l.ext
    THEN /\ Len(waits) < MaxWaits
         /\ waits' = Append(waits,
                        IF socket[l.rpp] # None
                        THEN [rpp |-> l.rpp, outcome |-> "resolved", settles |-> 1,
                              timeout |-> FALSE, interval |-> FALSE]
                        ELSE [rpp |-> l.rpp, outcome |-> "pending", settles |-> 0,
                              timeout |-> TRUE, interval |-> TRUE])
         /\ launch' = [l EXCEPT !.pc = "waiting", !.wait = Len(waits) + 1,
                                !.listener = TRUE, !.late = l.cancelled]
    ELSE /\ waits' = waits
         /\ launch' = [l EXCEPT !.pc = "done", !.returned = l.rpp,
                                !.listener = TRUE, !.late = l.cancelled]

\* launch_renpy returns, or throws, before it has warped or spawned: nothing
\* but the record of the call changes. (Such a call is one of the first
\* MaxRequests calls of a run.)
abort(l, pf) ==
    /\ l.seq <= MaxRequests
    /\ launch' = [l EXCEPT !.pc = "done", !.branch = "aborted", !.threw = pf.threw]
    /\ preflight' = pf
    /\ UNCHANGED <<procVars, processes, listening, callVars, last_call>>

\* starting_processes when launch_renpy suspends or settles. The in-place
\* branch and the returns before it leave it alone. The spawn path adds one
\* before its try block; `if (!sdk_path) return` and `if (!executable) return`
\* leave the try block without passing the catch; the progress callback
\* takes one off after the wait for the socket, which without extensions is
\* skipped.
starting_after(paths, line, strategy, ext) ==
    IF ~paths.file \/ ~paths.project_root \/ in_place(line, strategy, ext)
    THEN starting_processes
    ELSE IF ~paths.sdk THEN starting_processes + 1
    ELSE IF ext THEN starting_processes + 1
    ELSE (starting_processes + 1) - 1

\* launch_renpy(line) under a strategy, with extensions enabled or not, with
\* followCursorOnLaunch set or not, and with the paths it finds.
\* Without a file an error is shown and it returns. Without a project root
\* path.join(project_root, 'game/') throws before the check of project_root
\* that would show the error. In the in-place branch
\* pm.at(-1).warp_to_line(file, line + 1) is awaited and nothing is spawned.
\* Otherwise, on the spawn path: without the SDK's executable get_executable
\* shows an error and launch_renpy returns; pm.kill_all() under 'Replace
\* Window'; get_editor_path shows an error for an editor that does not exist
\* and its undefined result goes into the environment; the child is spawned
\* and registered, and the progress callback goes on to
\* follow_cursor.set(rpp), which it awaits, or to the cancel listener and the
\* wait for the socket.
launch_paths(paths, p, n, has_pid, line, strategy, ext, follow) ==
    /\ launch.pc \in {"idle", "done"}
    /\ ~launch.late
    /\ starting_processes' = starting_after(paths, line, strategy, ext)
    /\ LET l == [NoLaunch EXCEPT !.seq = launch.seq + 1, !.line = line,
                                 !.strategy = strategy, !.ext = ext,
                                 !.starting = starting_processes]
           pf == [paths |-> paths, messages |-> 0, threw |-> FALSE]
       IN  IF ~paths.file
           THEN abort(l, [pf EXCEPT !.messages = 1])
           ELSE IF ~paths.project_root
           THEN abort(l, [pf EXCEPT !.threw = TRUE])
           ELSE IF in_place(line, strategy, ext)
           THEN /\ Len(ipcs) < MaxIpc
                /\ warp_to_line(at(0 - 1), filename_relative, line + 1)
                /\ last_call' = [op |-> "warp_to_line", rpp |-> at(0 - 1),
                                 file |-> filename_relative, line |-> line + 1]
                /\ launch' = IF no_socket_connection(at(0 - 1))
                             THEN [l EXCEPT !.branch = "in_place", !.pc = "done",
                                            !.rpp = at(0 - 1), !.threw = TRUE]
                             ELSE [l EXCEPT !.branch = "in_place", !.pc = "warping",
                                            !.rpp = at(0 - 1), !.ipc = Len(ipcs) + 1]
                /\ preflight' = pf
                /\ UNCHANGED <<procVars, processes, listening, waits>>
           ELSE IF ~paths.sdk
           THEN abort(l, [pf EXCEPT !.messages = 1])
           ELSE /\ ext => Len(waits) < MaxWaits
                /\ spawn(p, n, has_pid, ext)
                /\ signalled' = IF strategy = "Replace Window"
                                THEN kill_signal(kill_targets(processes))
                                ELSE signalled
                /\ preflight' = [pf EXCEPT !.messages = IF paths.editor THEN 0 ELSE 1]
                /\ LET s == [l EXCEPT !.branch = "spawn", !.rpp = p,
                                      !.snapshot = IF strategy = "Replace Window"
                                                   THEN kill_targets(processes)
                                                   ELSE {}]
                   IN  IF ext /\ (follow \/ active_process # None)
                       THEN /\ launch' = [s EXCEPT !.pc = "set"]
                            /\ waits' = waits
                       ELSE register_and_wait(s)
                /\ UNCHANGED <<exit_code, dead, exit_calls, frames, ipcs>>
    /\ UNCHANGED <<socket, hooks, connVars>>
    /\ UNCHANGED <<throttleVars, followVars, jsVars, controllerVars, sideVars>>

\* launch_renpy when every path is found
launch_renpy(p, n, has_pid, line, strategy, ext, follow) ==
    launch_paths(ValidPaths, p, n, has_pid, line, strategy, ext, follow)

\* follow_cursor.set(rpp) returns to the progress callback, which adds the
\* cancel listener and waits for the socket
LaunchFollowSet ==
    /\ launch.pc = "set"
    /\ active_process' = set(launch.rpp)
    /\ UNCHANGED <<enabled, starting_processes>>
    /\ register_and_wait(launch)
    /\ UNCHANGED <<procVars, socket, processes, listening, hooks, connVars,
                   frames, ipcs, last_call>>
    /\ UNCHANGED <<throttleVars, followVars, jsVars>>
    /\ UNCHANGED <<preflightVars, sideVars>>

\* the user cancels the progress notification of a launch whose child has
\* been spawned: the token calls the listeners it has
Cancel ==
    /\ launch.pc \in {"set", "waiting"}
    /\ ~launch.cancelled
    /\ LET killed == IF launch.listener THEN cancel_listener(launch.rpp) ELSE {}
       IN  /\ launch' = [launch EXCEPT !.cancelled = TRUE,
                                       !.kill_sent = @ \/ killed # {}]
           /\ signalled' = kill_signal(killed)
    /\ UNCHANGED <<pstate, exit_code, dead, nonce, exit_calls, socket,
                   processes, listening, hooks, connVars, callVars, last_call>>
    /\ UNCHANGED starting_processes
    /\ UNCHANGED <<throttleVars, followVars, jsVars, controllerVars>>
    /\ UNCHANGED <<preflightVars, sideVars>>

\* the timer of a listener that was added to a cancelled token
CancelLate ==
    /\ launch.late
    /\ LET killed == cancel_listener(launch.rpp)
       IN  /\ launch' = [launch EXCEPT !.late = FALSE,
                                       !.kill_sent = @ \/ killed # {}]
           /\ signalled' = kill_signal(killed)
    /\ UNCHANGED <<pstate, exit_code, dead, nonce, exit_calls, socket,
                   processes, listening, hooks, connVars, callVars, last_call>>
    /\ UNCHANGED starting_processes
    /\ UNCHANGED <<throttleVars, followVars, jsVars, controllerVars>>
    /\ UNCHANGED <<preflightVars, sideVars>>

\* no message is shown when the wait fails
wait_failed_silent(rpp) == 0

\* the catch block around rpp.wait_for_socket(10_000), by the number of
\* error messages it shows: one unless the process is dead
wait_failed(rpp) == IF dead[rpp] = FALSE THEN 1 ELSE 0

\* the wait for the socket has settled: a failure is logged and reported,
\* starting_processes is decremented, and the callback returns rpp
LaunchWaited ==
    /\ launch.pc = "waiting"
    /\ waits[launch.wait].outcome # "pending"
    /\ launch' = [launch EXCEPT
                     !.pc = "done",
                     !.messages = IF waits[launch.wait].outcome # "resolved"
                                  THEN @ + wait_failed(launch.rpp) ELSE @,
                     !.returned = launch.rpp]
    /\ starting_processes' = starting_processes - 1
    /\ UNCHANGED <<sessionVars, throttleVars, followVars, jsVars, controllerVars>>
    /\ UNCHANGED <<preflightVars, sideVars>>

\* the warp of the in-place branch has settled: launch_renpy returns, or
\* throws what warp_to_line threw
LaunchWarped ==
    /\ launch.pc = "warping"
    /\ ipcs[launch.ipc].state # "pending"
    /\ launch' = [launch EXCEPT !.pc = "done",
                                !.threw = ipcs[launch.ipc].state = "rejected"]
    /\ UNCHANGED starting_processes
    /\ UNCHANGED <<sessionVars, throttleVars, followVars, jsVars, controllerVars>>
    /\ UNCHANGED <<preflightVars, sideVars>>

\* ------------------------------------------------ waiting for a reload
\* RenpyProcess of the reloading version: wait_for_socket_alive and
\* wait_for_socket_death, each a promise with a timeout and a 50 ms interval.

\* wait_for_socket_alive(timeout_ms): returns at once when this.socket is
\* set; otherwise the promise is created with both timers armed
wait_for_socket_alive(p) ==
    IF socket[p] # None
    THEN [rpp |-> p, kind |-> "alive", outcome |-> "resolved", settles |-> 1,
          timeout |-> FALSE, interval |-> FALSE]
    ELSE [rpp |-> p, kind |-> "alive", outcome |-> "pending", settles |-> 0,
          timeout |-> TRUE, interval |-> TRUE]

\* wait_for_socket_death(timeout_ms): returns at once when this.socket is
\* not set; otherwise the promise is created with both timers armed
wait_for_socket_death(p) ==
    IF socket[p] = None
    THEN [rpp |-> p, kind |-> "death", outcome |-> "resolved", settles |-> 1,
          timeout |-> FALSE, interval |-> FALSE]
    ELSE [rpp |-> p, kind |-> "death", outcome |-> "pending", settles |-> 0,
          timeout |-> TRUE, interval |-> TRUE]

\* a call of either function on a session whose child was spawned
WaitForSocketAlive(p) ==
    /\ pstate[p] \in {"running", "exited"}
    /\ Len(timers) < MaxTimers
    /\ timers' = Append(timers, wait_for_socket_alive(p))
    /\ UNCHANGED <<sessionVars, throttleVars>>
    /\ reload' = reload
    /\ UNCHANGED besideReload

WaitForSocketDeath(p) ==
    /\ pstate[p] \in {"running", "exited"}
    /\ Len(timers) < MaxTimers
    /\ timers' = Append(timers, wait_for_socket_death(p))
    /\ UNCHANGED <<sessionVars, throttleVars>>
    /\ reload' = reload
    /\ UNCHANGED besideReload

\* the condition the interval callback of a call tests at each tick
interval_ready(w) ==
    IF w.kind = "alive" THEN socket[w.rpp] # None \/ dead[w.rpp]
    ELSE socket[w.rpp] = None \/ dead[w.rpp]

\* the interval callback's branch on this.socket
interval_outcome(w) ==
    IF w.kind = "alive"
    THEN IF socket[w.rpp] # None THEN "resolved"
         ELSE "process died before socket connected"
    ELSE IF socket[w.rpp] # None THEN "process died before socket closed"
         ELSE "resolved"

\* an interval callback that leaves the timeout armed
interval_callback_keeps_timeout(w) ==
    [settle_wait(w, interval_outcome(w)) EXCEPT !.interval = FALSE]

\* the interval callback when its condition holds: clearTimeout(timeout),
\* clearInterval(interval), then resolve or reject
interval_callback(w) ==
    [settle_wait(w, interval_outcome(w))
       EXCEPT !.timeout = FALSE, !.interval = FALSE]

\* A tick of the interval of call i that finds its condition true. A tick
\* that finds it false does nothing.
TimerPoll(i) ==
    /\ i \in 1..Len(timers)
    /\ timers[i].interval
    /\ interval_ready(timers[i])
    /\ timers' = [timers EXCEPT ![i] = interval_callback(@)]
    /\ UNCHANGED <<sessionVars, throttleVars>>
    /\ reload' = reload
    /\ UNCHANGED besideReload

\* the timeout callback: clearInterval(interval), reject(timed out ...)
timer_timeout_callback(w) ==
    [settle_wait(w, IF w.kind = "alive" THEN "timed out waiting for socket"
                    ELSE "timed out waiting for socket to close")
       EXCEPT !.timeout = FALSE, !.interval = FALSE]

\* the timeout of call i fires
TimerTimeout(i) ==
    /\ i \in 1..Len(timers)
    /\ timers[i].timeout
    /\ timers' = [timers EXCEPT ![i] = timer_timeout_callback(@)]
    /\ UNCHANGED <<sessionVars, throttleVars>>
    /\ reload' = reload
    /\ UNCHANGED besideReload

\* ------------------------------------------------- the 'message' listener
\* socket.on('message', async (data) => ...) step by step: the listener runs
\* when the frame arrives; a handler that awaits sync_editor_with_renpy is
\* suspended there and resumes when the editor has been moved.

\* a frame whose payload is not JSON
unparseable == [type |-> "unparseable", line |-> 0]

\* the payloads a connection delivers
Payloads == Messages \cup {unparseable}

\* JSON.parse(data.toString()) throws a SyntaxError for such a payload
JSON_parse_throws(data) == data = unparseable

\* the listener is called with a frame: JSON.parse, then
\* rpp.message_handler(rpp, message), which returns at once unless it calls
\* sync_editor_with_renpy, where it is suspended. Nothing catches what
\* JSON.parse throws: the listener's promise is rejected.
Frame(c, data) ==
    /\ conn[c].state = "OPEN"
    /\ conn[c].rpp # None
    /\ IF JSON_parse_throws(data)
       THEN /\ frame' = [conn |-> c, data |-> data, threw |-> TRUE]
            /\ running' = running
       ELSE LET sync == message_handler(conn[c].rpp, data)
            IN  /\ frame' = [conn |-> c, data |-> data, threw |-> FALSE]
                /\ sync # {} => Len(running) < MaxHandlers
                /\ running' = IF sync = {} THEN running
                              ELSE Append(running,
                                     [conn |-> c, line |-> CHOOSE l \in sync : TRUE])
    /\ UNCHANGED <<throttleVars, besideHandler>>

\* sync_editor_with_renpy of the i-th suspended handler completes: the editor
\* is at its line and the handler returns
HandlerDone(i) ==
    /\ i \in 1..Len(running)
    /\ cursor' = sync_editor_with_renpy(running[i].line)
    /\ running' = SubSeq(running, 1, i - 1) \o SubSeq(running, i + 1, Len(running))
    /\ frame' = frame
    /\ UNCHANGED <<now, currentTick, activeCount, queue, calls, pushes>>
    /\ UNCHANGED besideHandler

\* ------------------------------------------------------------------ reload
\* reload(): await this.ipc({type: 'reload'}), await
\* this.wait_for_socket_death(5000), await this.wait_for_socket_alive(10_000).
\* The record of the call keeps the wait it is suspended in and a trail of
\* what its awaits have observed.

\* the object literal reload() sends
reload_message == <<<<"type", String("reload")>>>>

\* reload() from `await this.wait_for_socket_alive(10_000)` on: the function
\* returns at once when this.socket is set, and reload() resolves
await_alive(r, p) ==
    LET w == wait_for_socket_alive(p)
    IN  IF w.outcome = "resolved"
        THEN [r EXCEPT !.pc = "resolved", !.w = w, !.trail = Append(@, "attached")]
        ELSE [r EXCEPT !.pc = "alive", !.w = w]

\* reload() from `await this.wait_for_socket_death(5000)` on
await_death(r, p) ==
    LET w == wait_for_socket_death(p)
    IN  IF w.outcome = "resolved"
        THEN await_alive([r EXCEPT !.w = w, !.trail = Append(@, "cleared")], p)
        ELSE [r EXCEPT !.pc = "death", !.w = w]

\* reload() is called on a session: ipc() throws without an open socket,
\* else the frame is handed to socket.send and reload() is suspended
Reload(p) ==
    /\ pstate[p] \in {"running", "exited"}
    /\ reload.pc \in {"idle", "resolved", "rejected"}
    /\ Len(ipcs) < MaxIpc
    /\ ipc(p, reload_message)
    /\ reload' = IF no_socket_connection(p)
                 THEN [reload EXCEPT !.pc = "rejected", !.rpp = p, !.conn = None,
                                     !.ipc = Len(ipcs) + 1, !.trail = <<>>,
                                     !.error = "no socket connection"]
                 ELSE [reload EXCEPT !.pc = "ipc", !.rpp = p, !.conn = socket[p],
                                     !.ipc = Len(ipcs) + 1, !.trail = <<>>,
                                     !.error = ""]
    /\ UNCHANGED <<procVars, socket, processes, listening, hooks, connVars, waits,
                   last_call, timers>>
    /\ UNCHANGED <<throttleVars, besideReload>>

\* socket.send's callback for the reload frame: the ipc promise settles and
\* reload() goes on to wait_for_socket_death, or is rejected with the error
ReloadSent(err) ==
    /\ reload.pc = "ipc"
    /\ ipcs[reload.ipc].callback
    /\ ipcs' = [ipcs EXCEPT ![reload.ipc] =
                  [settle(@, IF err THEN "rejected" ELSE "resolved",
                             IF err THEN "send failed" ELSE "")
                     EXCEPT !.timer = FALSE, !.callback = FALSE]]
    /\ reload' = IF err
                 THEN [reload EXCEPT !.pc = "rejected", !.error = "send failed"]
                 ELSE await_death([reload EXCEPT !.trail = Append(@, "sent")],
                                  reload.rpp)
    /\ UNCHANGED <<procVars, socket, processes, listening, hooks, connVars, frames,
                   waits, last_call, timers>>
    /\ UNCHANGED <<throttleVars, besideReload>>

\* the 1000 ms timer of the reload frame's ipc fires first
ReloadIpcTimeout ==
    /\ reload.pc = "ipc"
    /\ ipcs[reload.ipc].timer
    /\ ipcs' = [ipcs EXCEPT ![reload.ipc] =
                  [settle(@, "rejected", "ipc timed out") EXCEPT !.timer = FALSE]]
    /\ reload' = [reload EXCEPT !.pc = "rejected", !.error = "ipc timed out"]
    /\ UNCHANGED <<procVars, socket, processes, listening, hooks, connVars, frames,
                   waits, last_call, timers>>
    /\ UNCHANGED <<throttleVars, besideReload>>

\* a tick of the interval of the wait reload() is suspended in that finds its
\* condition true: the wait settles and reload() goes on, or is rejected
ReloadPoll ==
    /\ reload.pc \in {"death", "alive"}
    /\ reload.w.interval
    /\ interval_ready(reload.w)
    /\ LET w == interval_callback(reload.w)
           r == [reload EXCEPT !.w = w]
       IN  reload' =
             IF w.outcome # "resolved"
             THEN [r EXCEPT !.pc = "rejected", !.error = w.outcome]
             ELSE IF reload.pc = "death"
             THEN await_alive([r EXCEPT !.trail = Append(@, "cleared")], reload.rpp)
             ELSE [r EXCEPT !.pc = "resolved", !.trail = Append(@, "attached")]
    /\ UNCHANGED <<sessionVars, throttleVars, timers>>
    /\ UNCHANGED besideReload

\* the timeout of the wait reload() is suspended in fires: reload() is
\* rejected
ReloadTimeout ==
    /\ reload.pc \in {"death", "alive"}
    /\ reload.w.timeout
    /\ LET w == timer_timeout_callback(reload.w)
       IN  reload' = [reload EXCEPT !.pc = "rejected", !.w = w, !.error = w.outcome]
    /\ UNCHANGED <<sessionVars, throttleVars, timers>>
    /\ UNCHANGED besideReload

\* since the reload frame was sent the runtime has disconnected and is
\* connected again: the connection the frame went out on has closed, another
\* connection of the session is open, and the process has not exited
reconnected ==
    /\ reload.conn # None
    /\ conn[reload.conn].state = "CLOSED"
    /\ ~dead[reload.rpp]
    /\ \E c \in Conns : conn[c].state = "OPEN" /\ conn[c].rpp = reload.rpp

\* ------------------------------------------------------ exec_py
\* extension.js hands a script to the runtime through the file exec.py of the
\* project: exec_py writes it and polls until the file is gone.

\* exec_py(script, game_root) is called: the promise's executor runs up to
\* `await fs.writeFile`
exec_py(k) ==
    /\ exec_calls[k].pc = "none"
    /\ \A j \in 1..MaxExecCalls : j < k => exec_calls[j].pc # "none"
    /\ exec_calls' = [exec_calls EXCEPT ![k].pc = "writeFile"]
    /\ UNCHANGED <<exec_path, exec_read>>
    /\ UNCHANGED besideExec

\* fs.writeFile(exec_path, exec_prelude + script) completes: the file holds
\* the script of this call, whatever it held
writeFile(k) ==
    /\ exec_calls[k].pc = "writeFile"
    /\ exec_path' = k
    /\ exec_calls' = [exec_calls EXCEPT ![k].pc = "file_exists"]
    /\ UNCHANGED exec_read
    /\ UNCHANGED besideExec

\* one round of `while (await file_exists(exec_path))`: without the file the
\* promise resolves; with it the promise is rejected with ExecPyTimeoutError
\* once elapsed_ms has reached 500, else 50 ms are waited and counted
file_exists(k) ==
    /\ exec_calls[k].pc = "file_exists"
    /\ exec_calls' =
          IF exec_path = None THEN [exec_calls EXCEPT ![k].pc = "resolved"]
          ELSE IF exec_calls[k].elapsed_ms >= 500
          THEN [exec_calls EXCEPT ![k].pc = "rejected"]
          ELSE [exec_calls EXCEPT ![k].elapsed_ms = @ + 50]
    /\ UNCHANGED <<exec_path, exec_read>>
    /\ UNCHANGED besideExec

\* the runtime finds exec.py, runs the script in it and deletes the file
RenpyReads ==
    /\ exec_path # None
    /\ exec_read' = exec_read \cup {exec_path}
    /\ exec_path' = None
    /\ UNCHANGED exec_calls
    /\ UNCHANGED besideExec

\* --------------------------------------------------------- specifications
\* The registry: every action that writes processes, exit_calls or signalled.
RegistryNext ==
    \/ \E p \in Sessions, n \in Nonces, has_pid \in BOOLEAN, ext \in BOOLEAN :
          Launch(p, n, has_pid, ext)
    \/ \E p \in Sessions, code \in {0, 1} : Exit(p, code)
    \/ kill_all

RegistrySpec == Init /\ [][RegistryNext]_vars

\* SIGKILL cannot be caught or ignored: a child it was sent to exits.
FairRegistrySpec ==
    /\ RegistrySpec
    /\ \A p \in Procs : WF_vars(signalled[p] /\ \E code \in {0, 1} : Exit(p, code))

\* The side channel: every action that writes socket, conn or inbound.
Next ==
    \/ \E p \in 1..ConnProcs, n \in Nonces : Launch(p, n, TRUE, TRUE)
    \/ \E p \in Procs : Exit(p, 0)
    \/ \E c \in Conns, sv \in Procs, n \in Nonces \cup {NaN} : Connection(c, sv, n)
    \/ \E c \in Conns, m \in Messages : Message(c, m)
    \/ \E c \in Conns : CloseFrame(c)
    \/ \E c \in Conns : SocketClose(c)

Spec == Init /\ [][Next]_vars

\* Commands over the side channel: every action that writes socket, conn,
\* frames or ipcs. The exit of the child writes none of them.
IpcNext ==
    \/ \E p \in 1..ConnProcs, n \in Nonces : Launch(p, n, TRUE, TRUE)
    \/ \E c \in 1..CallConns, sv \in Procs, n \in Nonces \cup {NaN} :
          Connection(c, sv, n)
    \/ \E c \in Conns : CloseFrame(c)
    \/ \E c \in Conns : SocketClose(c)
    \/ \E p \in Procs, w \in Warps : WarpToLine(p, w[1], w[2])
    \/ \E i \in 1..MaxIpc, err \in BOOLEAN : IpcCallback(i, err)
    \/ \E i \in 1..MaxIpc : IpcTimeout(i)

IpcSpec == Init /\ [][IpcNext]_vars

\* Waiting for the side channel: every action that writes socket, conn, dead
\* or waits.
WaitNext ==
    \/ \E p \in 1..ConnProcs, n \in Nonces : Launch(p, n, TRUE, TRUE)
    \/ \E p \in Procs : Exit(p, 0)
    \/ \E c \in 1..CallConns, sv \in Procs, n \in Nonces :
          Connection(c, sv, n)
    \/ \E c \in Conns : CloseFrame(c)
    \/ \E c \in Conns : SocketClose(c)
    \/ \E p \in Procs : WaitForSocket(p)
    \/ \E i \in 1..MaxWaits : WaitPoll(i)
    \/ \E i \in 1..MaxWaits : WaitTimeout(i)

WaitSpec == Init /\ [][WaitNext]_vars

\* A timeout that stays armed fires after timeout_ms.
FairWaitSpec ==
    /\ WaitSpec
    /\ \A i \in 1..MaxWaits : WF_vars(WaitTimeout(i))

\* Following the cursor: every action that writes the throttle, the cursor or
\* the pushes.
ThrottleNext ==
    \/ \E line \in Lines, kind \in {"Mouse", "Command"} : SelectionChange(line, kind)
    \/ \E due \in Start..(MaxTime + Interval) : Execute(due)
    \/ Tick

ThrottleSpec == Init /\ [][ThrottleNext]_vars

\* Following the cursor: every action that writes the registry, a socket or
\* the FollowCursor; the clock stands still, so that of the throttled calls the
\* one without delay is executed.
FollowNext ==
    \/ \E p \in Sessions, n \in Nonces : Launch(p, n, TRUE, TRUE)
    \/ \E p \in Sessions : Exit(p, 0)
    \/ \E c \in 1..CallConns, sv \in Sessions, n \in Nonces : Connection(c, sv, n)
    \/ \E c \in Conns : SocketClose(c)
    \/ \E m \in Modes : SetMode(m)
    \/ Toggle
    \/ \E ok \in BOOLEAN : EnableEnsured(ok)
    \/ EnableWaitTimeout
    \/ \E line \in Lines, kind \in {"Mouse", "Command"} : FollowSelectionChange(line, kind)
    \/ \E due \in Start..(MaxTime + Interval) : Execute(due)

FollowSpec == Init /\ [][FollowNext]_vars

\* extension.js: its registry and its cursor-follow
JsNext ==
    \/ \E p \in Sessions : JsLaunch(p)
    \/ \E p \in Sessions : JsExit(p)
    \/ JsToggle
    \/ JsExecuteCommand
    \/ \E supported \in BOOLEAN : JsToggleResume(supported)
    \/ JsSelectionChange
    \/ follow_cursor

JsSpec == Init /\ [][JsNext]_vars

\* commands the extension executes reach their handler, and the throttle
\* runs the calls it holds
FairJsSpec == JsSpec /\ WF_vars(JsExecuteCommand) /\ WF_vars(follow_cursor)

\* Inbound messages: every action that writes the followed session, the
\* connections' sessions or the editor's line from the runtime's side.
InboundNext ==
    \/ \E p \in 1..InboundProcs : Launch(p, p - 1, TRUE, TRUE)
    \/ \E c \in 1..InboundConns, sv \in 1..InboundProcs, n \in Nonces :
          Connection(c, sv, n)
    \/ \E c \in 1..InboundConns, m \in Messages : Message(c, m)
    \/ \E c \in 1..InboundConns : SocketClose(c)
    \/ toggleFollowCursorCommand

InboundSpec == Init /\ [][InboundNext]_vars

\* Launch requests and the registry: every action that writes the registry
\* or a session's socket, with one process more than the registry's
\* specification launches.
LaunchNext ==
    \/ \E p \in Procs, n \in Nonces, line \in LaunchLines, strategy \in Strategies,
          ext \in BOOLEAN :
          launch_renpy(p, n, TRUE, line, strategy, ext, FALSE)
    \/ LaunchWarped
    \/ \E p \in Procs : Exit(p, 0)
    \/ \E c \in 1..CallConns, sv \in Procs, n \in Nonces : Connection(c, sv, n)
    \/ \E c \in 1..CallConns : SocketClose(c)
    \/ \E i \in 1..MaxIpc, err \in BOOLEAN : IpcCallback(i, err)
    \/ \E i \in 1..MaxIpc : IpcTimeout(i)
    \/ \E i \in 1..MaxWaits : WaitPoll(i)
    \/ \E i \in 1..MaxWaits : WaitTimeout(i)
    \/ LaunchWaited

LaunchSpec == Init /\ [][LaunchNext]_vars

\* The progress callback of a launch: every action that writes the launch,
\* the followed session, a session's socket or its process.
ProgressNext ==
    \/ \E p \in 1..ConnProcs, n \in Nonces, ext \in BOOLEAN, follow \in BOOLEAN :
          launch_renpy(p, n, TRUE, NaN, "New Window", ext, follow)
    \/ LaunchFollowSet
    \/ Cancel
    \/ CancelLate
    \/ LaunchWaited
    \/ \E p \in 1..ConnProcs : Exit(p, 0)
    \/ \E c \in 1..CallConns, sv \in 1..ConnProcs, n \in Nonces : Connection(c, sv, n)
    \/ \E c \in 1..CallConns : SocketClose(c)
    \/ \E i \in 1..MaxWaits : WaitPoll(i)
    \/ \E i \in 1..MaxWaits : WaitTimeout(i)
    \/ toggleFollowCursorCommand

ProgressSpec == Init /\ [][ProgressNext]_vars

\* follow_cursor.set returns, and the timer of a listener added to a
\* cancelled token fires
FairProgressSpec ==
    ProgressSpec /\ WF_vars(LaunchFollowSet) /\ WF_vars(CancelLate)

\* Launch requests with the paths they find: every action that writes the
\* launch, the registry or a process.
PathsNext ==
    \/ \E paths \in PathCases, p \in 1..ConnProcs, n \in Nonces,
          line \in LaunchLines, strategy \in Strategies, ext \in BOOLEAN :
          launch_paths(paths, p, n, TRUE, line, strategy, ext, FALSE)
    \/ LaunchWarped
    \/ \E p \in 1..ConnProcs : Exit(p, 0)
    \/ \E c \in 1..CallConns, sv \in 1..ConnProcs, n \in Nonces :
          Connection(c, sv, n)
    \/ \E c \in 1..CallConns : SocketClose(c)
    \/ \E i \in 1..MaxIpc, err \in BOOLEAN : IpcCallback(i, err)
    \/ \E i \in 1..MaxIpc : IpcTimeout(i)
    \/ \E i \in 1..MaxWaits : WaitPoll(i)
    \/ \E i \in 1..MaxWaits : WaitTimeout(i)
    \/ LaunchWaited

PathsSpec == Init /\ [][PathsNext]_vars

\* The toggle command of commands.ts beside the registry.
CommandNext ==
    \/ \E p \in Sessions, n \in Nonces : Launch(p, n, TRUE, TRUE)
    \/ \E p \in Sessions, code \in {0, 1} : Exit(p, code)
    \/ toggleFollowCursorEnabled

CommandSpec == Init /\ [][CommandNext]_vars

\* Calls of exec_py and the runtime that reads exec.py.
ExecNext ==
    \/ \E k \in 1..MaxExecCalls : exec_py(k)
    \/ \E k \in 1..MaxExecCalls : writeFile(k)
    \/ \E k \in 1..MaxExecCalls : file_exists(k)
    \/ RenpyReads

ExecSpec == Init /\ [][ExecNext]_vars

\* Calls of ipc on the connections of launched sessions, which may exit.
SettleNext ==
    \/ \E p \in 1..ConnProcs : Launch(p, p - 1, TRUE, TRUE)
    \/ \E p \in 1..ConnProcs : Exit(p, 0)
    \/ \E c \in 1..CallConns, sv \in 1..ConnProcs :
          \E n \in {sv - 1, NaN} : Connection(c, sv, n)
    \/ \E c \in 1..CallConns : CloseFrame(c)
    \/ \E c \in 1..CallConns : SocketClose(c)
    \/ \E p \in 1..ConnProcs, w \in Warps : WarpToLine(p, w[1], w[2])
    \/ \E i \in 1..MaxIpc, err \in BOOLEAN : IpcCallback(i, err)
    \/ \E i \in 1..MaxIpc : IpcTimeout(i)

\* the 1000 ms timer of a call fires unless it is cleared
FairIpcSpec ==
    /\ Init /\ [][SettleNext]_vars
    /\ \A i \in 1..MaxIpc : WF_vars(IpcTimeout(i))

\* ------------------------------------------------------------------ claims
\* C1: for every session with a pid, from add(i, s) until the process of s
\* exits, get(i) returns s.
C1_GetReturnsAdded ==
    \A p \in Procs : pstate[p] = "running" => get(nonce[p]) = p

\* C2: an add(i, s2) issued while i is present in the registry fails, and the
\* entry of i still maps to the session registered first.
C2_SecondAddFails ==
    [][\A p \in Procs :
          (/\ pstate[p] = "unspawned"
           /\ pstate'[p] = "running"
           /\ MapHas(processes, nonce'[p]))
          => (/\ last_call'.threw
              /\ MapGet(processes', nonce'[p]) = MapGet(processes, nonce'[p]))]_vars

\* C3: when the process of a registered session exits, with a zero or a
\* non-zero code, get(i) of its identity is absent right after, and
\* exit_handler has been invoked with that session exactly once: once by this
\* exit, never before, never again.
C3_ExitRemovesAndNotifiesOnce ==
    /\ [](\A p \in Procs :
            exit_calls[p] = IF pstate[p] = "exited" THEN 1 ELSE 0)
    /\ [][\A p \in Procs :
            (pstate[p] = "running" /\ pstate'[p] = "exited")
            => (/\ MapGet(processes', nonce[p]) = None
                /\ exit_calls[p] = 0
                /\ exit_calls'[p] = 1
                /\ \A q \in Procs \ {p} : exit_calls'[q] = exit_calls[q])]_vars

\* a registered session exited with a non-zero code; it was notified once and
\* its identity is absent
C3_Witness ==
    \E p \in Procs :
        /\ pstate[p] = "exited"
        /\ exit_code[p] = 1
        /\ exit_calls[p] = 1
        /\ get(nonce[p]) = None

\* C4: kill_all() sends SIGKILL to every registered session; every session it
\* was sent to exits, is notified exactly once and leaves the registry; and
\* unless a session is added after the call, the registry's count reaches 0.
C4_KillAll ==
    /\ [](last_call.op = "kill_all"
          => \A p \in last_call.snapshot : signalled[p] \/ pstate[p] = "exited")
    /\ \A p \in Procs :
          signalled[p] ~> (/\ pstate[p] = "exited"
                           /\ exit_calls[p] = 1
                           /\ p \notin MapValues(processes))
    /\ (last_call.op = "kill_all") ~> (last_call.op # "kill_all" \/ length = 0)

\* kill_all() was called with two registered sessions; both have exited and
\* were notified, and the registry is empty
C4_Witness ==
    /\ last_call.op = "kill_all"
    /\ Cardinality(last_call.snapshot) = 2
    /\ \A p \in last_call.snapshot : pstate[p] = "exited" /\ exit_calls[p] = 1
    /\ length = 0

\* C6: when a connection arrives with the nonce of a session whose socket is
\* set, that socket is closed (it leaves OPEN) and the session's socket becomes
\* the arriving connection; the socket a session holds is always one
\* connection that was attached to that session and has not closed.
C6_SecondConnectionReplaces ==
    /\ [](\A p \in Procs :
            socket[p] # None
            => (/\ conn[socket[p]].rpp = p
                /\ conn[socket[p]].state \in {"OPEN", "CLOSING"}))
    /\ [][\A c \in Conns, p \in Procs :
            (/\ conn[c].state = "fresh"
             /\ conn'[c].state = "OPEN"
             /\ MapGet(processes, conn'[c].nonce) = p
             /\ socket[p] # None)
            => (/\ conn'[socket[p]].state # "OPEN"
                /\ socket'[p] = c
                /\ conn'[c].rpp = p)]_vars

\* two connections arrived for one session: the first has been closed by the
\* handler and the session holds the second
C6_Witness ==
    \E p \in Procs, c, d \in Conns :
        /\ c < d
        /\ conn[c].rpp = p
        /\ conn[d].rpp = p
        /\ conn[c].state = "CLOSING"
        /\ conn[d].state = "OPEN"
        /\ socket[p] = d

\* C7: a connection whose nonce matches no registered session is not attached
\* to any session, then or later; its arrival leaves the registry, every
\* session's socket and every other connection as they were; and no inbound
\* frame of it is dispatched to a message handler.
C7_UnknownNonceIgnored ==
    /\ [][\A c \in Conns :
            (/\ conn[c].state = "fresh"
             /\ conn'[c].state = "OPEN"
             /\ ~MapHas(processes, conn'[c].nonce))
            => (/\ conn'[c].rpp = None
                /\ socket' = socket
                /\ processes' = processes
                /\ hooks' = hooks
                /\ inbound' = inbound
                /\ \A d \in Conns \ {c} : conn'[d] = conn[d])]_vars
    /\ [][\A c \in Conns :
            (conn[c].state # "fresh" /\ conn[c].rpp = None)
            => (/\ conn'[c].rpp = None
                /\ \A p \in Procs : socket'[p] # c
                /\ (inbound' # inbound => inbound'.conn # c))]_vars

\* a connection with a nonce no session has is open and unattached while a
\* session is registered and an attached connection has dispatched a frame
C7_Witness ==
    \E c, d \in Conns :
        /\ conn[c].state = "OPEN"
        /\ conn[c].rpp = None
        /\ conn[c].nonce # NaN
        /\ length > 0
        /\ inbound.conn = d
        /\ d # c

\* C5: a warp_to_line/ipc call on a session whose socket is unset or not OPEN
\* is rejected at once with 'no socket connection': no frame is written, no
\* timer is armed, no send callback is outstanding, and the call is never
\* pending.
C5_NoConnectionFailsAtOnce ==
    [][(/\ Len(ipcs') = Len(ipcs) + 1
        /\ \/ socket[last_call'.rpp] = None
           \/ conn[socket[last_call'.rpp]].state # "OPEN")
       => (/\ frames' = frames
           /\ ipcs'[Len(ipcs')] = [state |-> "rejected",
                                   error |-> "no socket connection",
                                   timer |-> FALSE, callback |-> FALSE]
           /\ \A i \in 1..Len(ipcs) : ipcs'[i] = ipcs[i])]_vars

\* a call was made on a session whose socket is set but closing: it was
\* rejected and nothing was written
C5_Witness ==
    /\ last_call.op = "warp_to_line"
    /\ socket[last_call.rpp] # None
    /\ conn[socket[last_call.rpp]].state = "CLOSING"
    /\ Len(ipcs) = 1
    /\ ipcs[1].state = "rejected"
    /\ ipcs[1].error = "no socket connection"
    /\ frames = <<>>

\* C8: warp_to_line(file, line) on a session whose socket is OPEN writes
\* exactly one frame, to that socket, and the frame parses to the object with
\* type "warp_to_line", the file given and the line given; the frames written
\* before stay as they were.
C8_WarpToLineFrame ==
    [][(/\ Len(ipcs') = Len(ipcs) + 1
        /\ socket[last_call'.rpp] # None
        /\ conn[socket[last_call'.rpp]].state = "OPEN")
       => (/\ Len(frames') = Len(frames) + 1
           /\ SubSeq(frames', 1, Len(frames)) = frames
           /\ frames'[Len(frames')].conn = socket[last_call'.rpp]
           /\ JSON_parse(frames'[Len(frames')].data) =
                  [k \in {"type", "file", "line"} |->
                      CASE k = "type" -> String("warp_to_line")
                        [] k = "file" -> String(last_call'.file)
                        [] k = "line" -> Number(last_call'.line)])]_vars

\* warp_to_line("script.rpy", 15) wrote its frame to the open socket
C8_Witness ==
    /\ last_call.op = "warp_to_line"
    /\ last_call.file = "script.rpy"
    /\ last_call.line = 15
    /\ Len(frames) = 1
    /\ frames[1].conn = socket[last_call.rpp]
    /\ JSON_parse(frames[1].data)["line"] = Number(15)
    /\ ipcs[1].state = "pending"

\* C9: wait_for_socket on a session whose socket is set resolves at once;
\* otherwise the promise is pending with both timers armed, and it is settled
\* exactly once, by the interval with success when the socket is set, by the
\* interval with 'process died before socket connected' when the process has
\* died and no socket is set, or by the timeout with 'timed out waiting for
\* socket'. Resolve or reject is called once per call, a settled outcome
\* never changes, and every call is settled eventually.
C9_WaitForSocketSettlesOnce ==
    /\ [](\A i \in 1..Len(waits) :
            /\ waits[i].settles = IF waits[i].outcome = "pending" THEN 0 ELSE 1
            /\ waits[i].outcome \in {"pending", "resolved",
                                     "process died before socket connected",
                                     "timed out waiting for socket"})
    /\ [][(Len(waits') = Len(waits) + 1
            => waits'[Len(waits')].outcome =
                  IF socket[last_call'.rpp] # None THEN "resolved"
                  ELSE "pending")
          /\ (\A i \in 1..Len(waits) :
                /\ waits[i].outcome # "pending"
                   => waits'[i].outcome = waits[i].outcome
                /\ (waits[i].outcome = "pending" /\ waits'[i].outcome = "resolved")
                   => socket[waits[i].rpp] # None
                /\ (/\ waits[i].outcome = "pending"
                    /\ waits'[i].outcome = "process died before socket connected")
                   => (socket[waits[i].rpp] = None /\ dead[waits[i].rpp])
                /\ (/\ waits[i].outcome = "pending"
                    /\ waits'[i].outcome = "timed out waiting for socket")
                   => waits[i].timeout)]_vars
    /\ \A i \in 1..MaxWaits :
          (Len(waits) >= i) ~> (Len(waits) >= i /\ waits[i].outcome # "pending")

\* a call made before the socket connected was settled by the interval after
\* the process died
C9_Witness ==
    /\ Len(waits) = 1
    /\ waits[1].outcome = "process died before socket connected"
    /\ waits[1].settles = 1
    /\ dead[waits[1].rpp]
    /\ ~waits[1].timeout
    /\ ~waits[1].interval

\* C10: of four calls of the throttled push made within one interval, exactly
\* two are executed: the first at the time of its call, and one at the end of
\* the interval with the cursor position of that time; the calls in between
\* execute no push of their own.
C10_BurstCoalesced ==
    (/\ Len(calls) = 4
     /\ calls[4] - calls[1] < Interval
     /\ queue = {})
    => (/\ Len(pushes) = 2
        /\ pushes[1].at = calls[1]
        /\ pushes[2].at = calls[1] + Interval
        /\ pushes[2].line = cursor + 1)

\* C11: a request to turn cursor-follow on while more than one session is
\* registered is refused: as long as it is the latest request, follow is not
\* active, no selection listener is installed and enable() is not under way.
C11_EnableRefusedWhenSeveral ==
    (last_call.op = "enable" /\ last_call.count > 1)
    => (~active /\ ~text_editor_handle /\ enable_pc = "idle")

\* C12: when the last registered process, the one followed, exits while
\* cursor-follow is on, follow is eventually turned off, whatever the user
\* does or does not do.
C12_FollowOffAfterExit ==
    (js_last.op = "exit" /\ js_last.following /\ js_last.left = 0
        /\ ~js_last.off_since)
    ~> js_last.off_since

\* follow has been turned off after the followed process exited
C12_Witness ==
    /\ js_last.op = "exit"
    /\ js_last.following
    /\ js_last.left = 0
    /\ js_last.off_since
    /\ js_processes = {}
    /\ ~is_follow_cursor
    /\ ~js_text_editor_handle

\* C13: a selection change calls the outbound push only if follow is on, the
\* mode is "Visual Studio Code updates Ren'Py" or "Update both" and the change
\* is not of kind Command; and in mode "Ren'Py updates Visual Studio Code" no
\* step, enabling follow included, calls the push.
C13_SelectionPushesOnlyWhenFollowing ==
    /\ [](last_call.op = "selection" /\ last_call.push
            => /\ last_call.active
               /\ last_call.mode \in OutboundModes
               /\ last_call.kind # "Command")
    /\ [][followCursorMode = "Ren'Py updates Visual Studio Code"
            => calls' = calls]_vars

C17_NoSharedIdentity ==
    \A p, q \in Procs :
        (p # q /\ pstate[p] = "running" /\ pstate[q] = "running")
        => nonce[p] # nonce[q]

\* C18: at most one side-channel server is listening at any time.
C18_OneServerListening == Cardinality({p \in Procs : listening[p]}) <= 1

\* C15: a call of launch_renpy takes the in-place branch exactly when the
\* registry is not empty, a line is given, the strategy is "Update Window" and
\* extensions are enabled: it then hands one warp_to_line with line + 1 to the
\* session registered last (launches come in the order of the processes'
\* numbers) and spawns and registers nothing; in every other case a process
\* is spawned. When the warp has failed launch_renpy throws, and nothing is
\* spawned.
C15_InPlaceExactlyWhen ==
    /\ [][launch'.seq # launch.seq
            => IF length > 0 /\ launch'.line # NaN
                    /\ launch'.strategy = "Update Window" /\ launch'.ext
               THEN /\ launch'.branch = "in_place"
                    /\ Len(ipcs') = Len(ipcs) + 1
                    /\ last_call' =
                          [op |-> "warp_to_line",
                           rpp |-> CHOOSE p \in MapValues(processes) :
                                      \A q \in MapValues(processes) : q <= p,
                           file |-> filename_relative,
                           line |-> launch'.line + 1]
                    /\ pstate' = pstate
                    /\ processes' = processes
               ELSE /\ launch'.branch = "spawn"
                    /\ \E p \in Procs : pstate[p] = "unspawned"
                                        /\ pstate'[p] # "unspawned"]_vars
    /\ [][launch.pc = "warping" /\ launch'.pc = "done"
            => /\ launch'.threw = (ipcs[launch.ipc].state = "rejected")
               /\ pstate' = pstate
               /\ processes' = processes]_vars

\* C16: under "Replace Window" a launch that spawns signals every running
\* process that was registered before it and not the process it spawns; and
\* once all of those have exited, while the new process runs and no later
\* launch was made, the registry holds the new session and nothing else.
C16_ReplaceLeavesOnlyNewSession ==
    /\ [][(launch'.seq # launch.seq /\ launch'.branch = "spawn"
                /\ launch'.strategy = "Replace Window")
            => /\ \A q \in MapValues(processes) :
                     pstate[q] = "running" => signalled'[q]
               /\ ~signalled'[launch'.rpp]]_vars
    /\ []((/\ launch.branch = "spawn"
           /\ launch.strategy = "Replace Window"
           /\ pstate[launch.rpp] = "running"
           /\ \A q \in launch.snapshot : pstate[q] = "exited")
          => MapValues(processes) = {launch.rpp})

\* C19: when the wait for the socket during a launch has failed and the
\* process is not dead, the launch shows one error message, signals no
\* process, changes nothing in the registry, and returns the session.
C19_WaitFailureKeepsProcess ==
    [][(/\ launch.pc = "waiting"
        /\ launch'.pc = "done"
        /\ waits[launch.wait].outcome # "resolved"
        /\ dead[launch.rpp] = FALSE)
       => /\ launch'.messages = launch.messages + 1
          /\ signalled' = signalled
          /\ launch'.kill_sent = launch.kill_sent
          /\ pstate' = pstate
          /\ processes' = processes
          /\ launch'.returned = launch.rpp
          /\ ~launch'.threw]_vars

\* a launch has returned its session after the wait timed out: the message
\* was shown, and the process runs, unsignalled and registered
C19_Witness ==
    /\ launch.pc = "done"
    /\ launch.branch = "spawn"
    /\ launch.ext
    /\ waits[launch.wait].outcome = "timed out waiting for socket"
    /\ launch.messages = 1
    /\ launch.returned = launch.rpp
    /\ pstate[launch.rpp] = "running"
    /\ ~signalled[launch.rpp]
    /\ ~launch.kill_sent
    /\ launch.rpp \in MapValues(processes)

C21_BadPathAborts ==
    [][(/\ launch'.seq # launch.seq
        /\ \/ ~preflight'.paths.file
           \/ ~preflight'.paths.project_root
           \/ /\ launch'.branch # "in_place"
              /\ ~preflight'.paths.sdk \/ ~preflight'.paths.editor)
       => /\ preflight'.messages >= 1
          /\ ~preflight'.threw
          /\ pstate' = pstate
          /\ processes' = processes]_vars

\* Waiting for the socket to come and go: every action that writes socket,
\* dead or timers. (wait_for_socket_alive has the body of wait_for_socket.)
TimerNext ==
    \/ \E p \in 1..ConnProcs : Launch(p, p - 1, TRUE, TRUE)
    \/ \E p \in 1..ConnProcs : Exit(p, 0)
    \/ \E c \in 1..CallConns, sv \in 1..ConnProcs : Connection(c, sv, sv - 1)
    \/ \E c \in 1..CallConns : SocketClose(c)
    \/ \E p \in 1..ConnProcs : WaitForSocketAlive(p)
    \/ \E p \in 1..ConnProcs : WaitForSocketDeath(p)
    \/ \E i \in 1..MaxTimers : TimerPoll(i)
    \/ \E i \in 1..MaxTimers : TimerTimeout(i)

TimerSpec == Init /\ [][TimerNext]_vars

\* C22: once a call of wait_for_socket_alive (the body of wait_for_socket)
\* or of wait_for_socket_death has settled (resolved, rejected because the
\* process died, or rejected by its timeout), neither its timeout nor its
\* interval is scheduled any more, whatever other calls on the same session
\* are pending or have settled.
C22_SettledWaitLeavesNoTimer ==
    \A i \in 1..Len(timers) :
        timers[i].outcome # "pending" => ~timers[i].timeout /\ ~timers[i].interval

\* two calls of wait_for_socket_death on one session are pending together
\* and the later one has been settled by its interval
C22_Witness ==
    /\ Len(timers) = 2
    /\ timers[1].rpp = timers[2].rpp
    /\ timers[1].kind = "death" /\ timers[2].kind = "death"
    /\ timers[1].outcome = "pending" /\ timers[1].interval
    /\ timers[2].outcome = "process died before socket closed"
    /\ timers[2].settles = 1

\* Launch requests of extension.js: every action that writes the Set of
\* processes or the record of the latest request.
JsRequestNext ==
    \/ \E p \in Sessions, line \in LaunchLines, strategy \in Strategies :
          js_launch_renpy(p, line, strategy)
    \/ \E p \in Sessions : JsExit(p)

JsRequestSpec == Init /\ [][JsRequestNext]_vars

\* C23: a warp request for line 0 (the line warpToFile passes) made under
\* 'Update Window' while exactly one instance runs is warped inside that
\* instance, to line 1 of the file, and spawns nothing.
C23_FirstLineWarpsInPlace ==
    (/\ js_request.strategy = "Update Window"
     /\ js_request.running = 1
     /\ js_request.line = 0)
    => /\ js_request.branch = "in_place"
       /\ js_request.warp = 1

\* Inbound frames step by step: every action that writes the connections,
\* the followed session, the suspended handlers or the latest frame.
HandlerNext ==
    \/ \E p \in 1..InboundProcs : Launch(p, p - 1, TRUE, TRUE)
    \/ \E c \in 1..InboundConns, sv \in 1..InboundProcs, n \in Nonces :
          Connection(c, sv, n)
    \/ \E c \in 1..InboundConns, data \in Payloads : Frame(c, data)
    \/ \E i \in 1..MaxHandlers : HandlerDone(i)
    \/ \E c \in 1..InboundConns : SocketClose(c)
    \/ toggleFollowCursorCommand

HandlerSpec == Init /\ [][HandlerNext]_vars

\* C24: on one connection at most one message handler is under way: a
\* handler is not started while the handler of an earlier message of the
\* same connection has not completed.
C24_HandlersOneAtATime ==
    \A i, j \in 1..Len(running) :
        i # j => running[i].conn # running[j].conn

\* C25: an inbound frame whose type is unknown or whose payload cannot be
\* parsed makes the listener throw nothing and changes neither a session, nor
\* the registry, nor the followed session.
C25_BadFrameIsDropped ==
    [][(frame' # frame /\ frame'.data.type # "current_line")
        => /\ ~frame'.threw
           /\ UNCHANGED <<procVars, socket, processes, conn, active_process>>]_vars

\* C26: when a connection that was attached to a session closes after
\* another connection has replaced it, the session keeps the connection it
\* holds: the socket field is cleared only by the close of the connection it
\* holds.
C26_StaleCloseKeepsConnection ==
    [][\A c \in Conns, p \in Procs :
          (/\ conn[c].state # "CLOSED"
           /\ conn'[c].state = "CLOSED"
           /\ conn[c].rpp = p
           /\ socket[p] \notin {None, c})
          => socket'[p] = socket[p]]_vars

\* C27: when the connection a session holds closes, the session's socket
\* field is cleared, the registry is as it was, the session's dead flag is as
\* it was, and the registry's exit callback is not called.
C27_CloseOnlyClearsConnection ==
    [][\A c \in Conns, p \in Procs :
          (/\ conn[c].state # "CLOSED"
           /\ conn'[c].state = "CLOSED"
           /\ conn[c].rpp = p
           /\ socket[p] = c)
          => /\ socket'[p] = None
             /\ processes' = processes
             /\ dead' = dead
             /\ exit_calls' = exit_calls
             /\ pstate' = pstate]_vars

\* a running, registered session that a connection was attached to holds no
\* connection after the connection closed; it is not dead and the exit
\* callback has not been called for it
C27_Witness ==
    \E p \in Procs :
        /\ pstate[p] = "running"
        /\ MapGet(processes, nonce[p]) = p
        /\ hooks[p] # {}
        /\ socket[p] = None
        /\ ~dead[p]
        /\ exit_calls[p] = 0
        /\ \E c \in Conns : conn[c].state = "CLOSED"
        /\ \A c \in Conns : conn[c].rpp # p

\* C28: whenever exit_handler has been called for a session, it found the
\* session marked dead and absent from the registry; and it has been called
\* for every session whose process exited.
C28_ExitCallbackSeesDeadAndAbsent ==
    \A p \in Procs :
        /\ exit_seen[p].called <=> exit_calls[p] > 0
        /\ exit_seen[p].called
           => exit_seen[p].dead /\ ~exit_seen[p].registered

\* exit_handler has been called for a session that shared its identity with
\* another session, which is still running
C28_Witness ==
    \E p, q \in Procs :
        /\ p # q
        /\ exit_seen[p].called
        /\ exit_calls[p] = 1
        /\ pstate[q] = "running"
        /\ nonce[q] = nonce[p]

\* Death and disconnection: every action that writes dead or socket. The
\* runtime's end of a connection is closed when its process has exited: the
\* 'close' event of a dead session's connection is emitted.
CloseNext ==
    \/ \E p \in 1..ConnProcs, n \in Nonces : Launch(p, n, TRUE, TRUE)
    \/ \E p \in Procs : Exit(p, 0)
    \/ \E c \in Conns, sv \in Procs, n \in Nonces : Connection(c, sv, n)
    \/ \E c \in Conns : CloseFrame(c)
    \/ \E c \in Conns : SocketClose(c)

CloseSpec == Init /\ [][CloseNext]_vars

FairCloseSpec ==
    /\ CloseSpec
    /\ \A c \in Conns :
          WF_vars(conn[c].rpp # None /\ dead[conn[c].rpp] /\ SocketClose(c))

ReloadNext ==
    \/ \E p \in 1..ConnProcs : Launch(p, p - 1, TRUE, TRUE)
    \/ \E p \in 1..ConnProcs : Exit(p, 0)
    \/ \E c \in Conns, sv \in 1..ConnProcs : Connection(c, sv, sv - 1)
    \/ \E c \in Conns : SocketClose(c)
    \/ \E p \in 1..ConnProcs : Reload(p)
    \/ \E err \in BOOLEAN : ReloadSent(err)
    \/ ReloadIpcTimeout
    \/ ReloadPoll
    \/ ReloadTimeout

ReloadSpec == Init /\ [][ReloadNext]_vars

\* C30: reload() has resolved only after its awaits observed, in this order,
\* the frame sent, the socket cleared and a socket attached; it does not
\* resolve for a session whose process has exited; and once the runtime has
\* disconnected and reconnected, the wait reload() is suspended in is ready
\* to settle at its next tick.
C30_ReloadFollowsReconnect ==
    /\ [](reload.pc = "resolved" => reload.trail = <<"sent", "cleared", "attached">>)
    /\ [][(reload.pc # "resolved" /\ reload'.pc = "resolved")
            => ~dead'[reload'.rpp]]_vars
    /\ []((reload.pc \in {"death", "alive"} /\ reconnected)
            => interval_ready(reload.w))

\* C31: any two executions of the throttled push start at least one interval
\* apart, so that a window of one interval holds the start of at most one,
\* whatever the number and the times of the selection changes.
C31_OnePushPerInterval ==
    \A i, j \in 1..Len(pushes) :
        i < j => pushes[j].at - pushes[i].at >= Interval

\* three calls were made within one interval and each has been executed, one
\* interval after the one before
C31_Witness ==
    /\ Len(calls) >= 3
    /\ calls[3] - calls[1] < Interval
    /\ Len(pushes) >= 3
    /\ pushes[1].at = calls[1]
    /\ pushes[2].at = calls[1] + Interval
    /\ pushes[3].at = calls[1] + 2 * Interval

\* C32: a toggle request that finds the registry empty leaves cursor-follow
\* off: not enabled and without a followed session.
C32_NoFollowWithoutSession ==
    (last_call.op = "toggleFollowCursor" /\ last_call.count = 0)
        => (~enabled /\ active_process = None)

\* C33: once disable() has run the selection listener stays removed, and as
\* long as follow stays off no selection change calls the outbound push.
C33_OffStopsPushes ==
    /\ [][last_call'.op = "disable" => ~text_editor_handle']_vars
    /\ [][(~active /\ ~active' /\ last_call'.op = "selection")
            => calls' = calls]_vars

\* C34: the selection listener is installed only while active is true,
\* whenever disable() ran; and an enable() that ends in one of its waits
\* without having installed the listener does not leave the controller active.
C34_ListenerOnlyWhileActive ==
    /\ [](text_editor_handle => active)
    /\ [][(enable_pc # "idle" /\ enable_pc' = "idle" /\ ~text_editor_handle')
            => ~active']_vars

\* C35: a step of the toggle command that sets is_follow_cursor finds exactly
\* one process registered, whatever was added or exited while the command was
\* suspended in supports_exec_py.
C35_FollowSetWithOneProcess ==
    [][(~is_follow_cursor /\ is_follow_cursor')
        => Cardinality(js_processes') = 1]_vars

\* C36: when a call of launch_renpy that took the spawn path has settled,
\* having returned rpp or returned early for a missing SDK executable,
\* starting_processes is what it was before the call.
C36_StartingCounterRestored ==
    (launch.pc = "done" /\ launch.branch \in {"spawn", "aborted"})
        => starting_processes = launch.starting

\* C37: the script of every call of exec_py that has resolved was read by
\* the runtime, also when calls on the same project overlap.
C37_ResolvedScriptWasRead ==
    \A k \in 1..MaxExecCalls :
        exec_calls[k].pc = "resolved" => k \in exec_read

\* C38: a call of ipc on an open connection is pending only while its
\* 1000 ms timer is armed, and the timer settles it if nothing else has; it
\* resolves only through a send callback without error, is rejected with the
\* transport's error only through a send callback with one and with 'ipc
\* timed out' only through the timer; once settled it has no timer left and
\* its outcome never changes, whatever callback comes later.
C38_IpcSettlesOnceInTime ==
    /\ [](\A i \in 1..Len(ipcs) :
            /\ ipcs[i].state = "pending" => ipcs[i].timer /\ ipcs[i].callback
            /\ ipcs[i].state # "pending" => ~ipcs[i].timer
            /\ ipcs[i].state = "resolved" => ipcs[i].error = ""
            /\ ipcs[i].state = "rejected"
               => ipcs[i].error \in {"no socket connection", "send failed",
                                     "ipc timed out"})
    /\ [][\A i \in 1..Len(ipcs) :
            /\ ipcs[i].state # "pending"
               => ipcs'[i].state = ipcs[i].state /\ ipcs'[i].error = ipcs[i].error
            /\ (ipcs[i].state = "pending" /\ ipcs'[i].state = "resolved")
               => ~ipcs'[i].callback
            /\ (ipcs[i].state = "pending" /\ ipcs'[i].error = "send failed")
               => ~ipcs'[i].callback
            /\ (ipcs[i].state = "pending" /\ ipcs'[i].error = "ipc timed out")
               => ipcs'[i].callback /\ ~ipcs'[i].timer]_vars
    /\ \A i \in 1..MaxIpc :
          (Len(ipcs) >= i /\ ipcs[i].state = "pending")
              ~> (Len(ipcs) >= i /\ ipcs[i].state # "pending")

\* a call was rejected by its timer, and the send callback came afterwards
C38_Witness ==
    \E i \in 1..Len(ipcs) :
        /\ ipcs[i].state = "rejected"
        /\ ipcs[i].error = "ipc timed out"
        /\ ~ipcs[i].timer
        /\ ~ipcs[i].callback

\* C39: a session whose process was spawned without a pid is never in the
\* registry: its add() throws and leaves the registry as it was.
C39_NoPidNoEntry ==
    /\ [](\A p \in Procs :
            pstate[p] = "failed" => p \notin MapValues(processes))
    /\ [][\A p \in Procs :
            (pstate[p] = "unspawned" /\ pstate'[p] = "failed")
            => /\ last_call' = [op |-> "add", id |-> nonce'[p], rpp |-> p,
                                threw |-> TRUE]
               /\ processes' = processes]_vars

\* the add() of a process without a pid has thrown, with the identity of a
\* registered session whose process is running: that entry is as it was
C39_Witness ==
    \E p, q \in Procs :
        /\ pstate[p] = "failed"
        /\ last_call = [op |-> "add", id |-> nonce[p], rpp |-> p, threw |-> TRUE]
        /\ pstate[q] = "running"
        /\ nonce[q] = nonce[p]
        /\ MapValues(processes) = {q}
        /\ get(nonce[p]) = q
====
